---- MODULE Spec2Model ----
(***************************************************************************)
(* The submission pipeline of the student form (functions/api/submit.js):  *)
(* the field validators, the in-memory sliding-window rate limiter and the *)
(* onRequestPost handler with its writes to the KV store.                  *)
(*                                                                         *)
(* Strings are sequences of one-character strings.  The clock `now` counts *)
(* milliseconds since the start of the calendar year EpochYear.            *)
(***************************************************************************)
EXTENDS Integers, Sequences, FiniteSets, TLC

VARIABLES
    now,             \* Date.now(), ms since the start of EpochYear
    rateLimitStore,  \* submit.js: ip -> timestamps of the admitted requests
    loginAttempts,   \* login handler: ip -> timestamps of the admitted attempts
    kv,              \* env.KV_RESPONSES
    req,             \* the request being answered (headers, body)
    resp,            \* the Response returned for req
    nreq,            \* number of requests handled so far
    rlLog,           \* the limiter calls of one identity: [t, ok], oldest first
    vfn,             \* the function under test
    vin,             \* its input string
    vdone,           \* the validator has been called on vin
    vres,            \* its result
    vmut,            \* vin was obtained from an accepted ID by changing one digit
    sessions,        \* env.KV_RESPONSES, the keys session:<id>
    seclog,          \* env.KV_RESPONSES, the keys log:<kind>:<time> and stats:security
    cache,           \* env.KV_RESPONSES, the keys cache:responses:<params>
    qreq,            \* the admin-side request being answered
    qresp,           \* the Response returned for qreq
    kvlog,           \* the KV operations the last handler performed, in order
    procs            \* the submissions in flight: position and local variables

vars == <<now, rateLimitStore, loginAttempts, kv, req, resp, nreq, rlLog,
          vfn, vin, vdone, vres, vmut, sessions, seclog, cache, qreq, qresp, kvlog,
          procs>>

\* the variables the submission pipeline, run request by request, leaves alone
adminVars == <<sessions, seclog, cache, qreq, qresp, kvlog, procs>>

----------------------------------------------------------------------------
(* Bounds of the model *)

\* the clock advances in steps of TickMs, at most MaxTicks times
MaxTicks == 3
\* the calendar year in which the clock starts
EpochYear == 2024
\* requests handled in one run
MaxReqs == 2
\* values of the random suffix of a response id
MaxRandom == 2
\* calls of a rate limiter in one run
MaxCalls == 12

\* seven and a half minutes, half the window of the rate limiters
TickMs == 450 * 1000

----------------------------------------------------------------------------
(* Characters and strings *)

Digits == <<"0", "1", "2", "3", "4", "5", "6", "7", "8", "9">>

DigitChars == {Digits[i] : i \in 1..Len(Digits)}

\* parseInt of a one-digit string
parseInt(c) == CHOOSE d \in 0..9 : Digits[d + 1] = c

\* s.replace(/\D/g, '')
StripNonDigits(s) == SelectSeq(s, LAMBDA c : c \in DigitChars)

\* n copies of the character c
Rep(c, n) == [i \in 1..n |-> c]

----------------------------------------------------------------------------
(* Validators *)

MOBILE_LEN == 10

\* the pattern without its end anchor: /^[6-9]\d{9}/
MobileRegexLoose(s) ==
    /\ Len(s) >= MOBILE_LEN
    /\ s[1] \in {"6", "7", "8", "9"}
    /\ \A i \in 2..MOBILE_LEN : s[i] \in DigitChars

\* /^[6-9]\d{9}$/.test(s)
MobileRegexTest(s) ==
    /\ Len(s) = MOBILE_LEN
    /\ s[1] \in {"6", "7", "8", "9"}
    /\ \A i \in 2..Len(s) : s[i] \in DigitChars

validateIndianMobile(mobile) == MobileRegexTest(StripNonDigits(mobile))

AADHAR_LEN == 12

\* the for loop of validateAadhar: i runs over 0..10, cleaned[i] is cleaned[i + 1] here
RECURSIVE AadharLoop(_, _, _)
AadharLoop(cleaned, i, sum) ==
    IF i < AADHAR_LEN - 1
    THEN LET digit == parseInt(cleaned[i + 1])
             doubled == digit * 2
         IN IF i % 2 = 0
            THEN AadharLoop(cleaned, i + 1, sum + digit)
            ELSE AadharLoop(cleaned, i + 1,
                            sum + (IF doubled > 9 THEN doubled - 9 ELSE doubled))
    ELSE sum

\* a validateAadhar that doubles without folding the two-digit products
RECURSIVE AadharLoopNoFold(_, _, _)
AadharLoopNoFold(cleaned, i, sum) ==
    IF i < AADHAR_LEN - 1
    THEN LET digit == parseInt(cleaned[i + 1])
         IN IF i % 2 = 0
            THEN AadharLoopNoFold(cleaned, i + 1, sum + digit)
            ELSE AadharLoopNoFold(cleaned, i + 1, sum + digit * 2)
    ELSE sum

validateAadharNoFold(aadhar) ==
    LET cleaned == StripNonDigits(aadhar)
    IN IF Len(cleaned) # AADHAR_LEN THEN FALSE
       ELSE LET sum == AadharLoopNoFold(cleaned, 0, 0)
                checkDigit == (10 - (sum % 10)) % 10
            IN checkDigit = parseInt(cleaned[AADHAR_LEN])

validateAadhar(aadhar) ==
    LET cleaned == StripNonDigits(aadhar)
    IN IF Len(cleaned) # AADHAR_LEN THEN FALSE
       ELSE LET sum == AadharLoop(cleaned, 0, 0)
                checkDigit == (10 - (sum % 10)) % 10
            IN checkDigit = parseInt(cleaned[AADHAR_LEN])

(* Dates.  An instant is <<year, ms since the start of that year>>.  The    *)
(* date strings of the model are the ISO year-only form "YYYY" (midnight    *)
(* UTC of 1 January) and text that is no date.                              *)

NaN == <<-1, -1>>

Instant(t) == <<EpochYear, t>>

\* new Date(dob) for a string dob
ParseDate(dob) ==
    IF Len(dob) = 4 /\ \A i \in 1..4 : dob[i] \in DigitChars
    THEN <<parseInt(dob[1]) * 1000 + parseInt(dob[2]) * 100
             + parseInt(dob[3]) * 10 + parseInt(dob[4]), 0>>
    ELSE NaN

\* a < b on instants
Before(a, b) == a[1] < b[1] \/ (a[1] = b[1] /\ a[2] < b[2])

DOB_MAX_YEARS == 100

\* a validateDOB that also refuses the current instant
validateDOBStrict(dob, t) ==
    LET date == ParseDate(dob)
        today == Instant(t)
        hundredYearsAgo == <<today[1] - DOB_MAX_YEARS, today[2]>>
    IN IF date = NaN THEN FALSE
       ELSE IF ~Before(date, today) THEN FALSE
       ELSE IF Before(date, hundredYearsAgo) THEN FALSE
       ELSE TRUE

\* validateDOB called when the clock reads t
validateDOB(dob, t) ==
    LET date == ParseDate(dob)
        today == Instant(t)
        \* setFullYear(getFullYear() - 100) keeps the place in the year
        hundredYearsAgo == <<today[1] - DOB_MAX_YEARS, today[2]>>
    IN IF date = NaN THEN FALSE
       ELSE IF Before(today, date) THEN FALSE
       ELSE IF Before(date, hundredYearsAgo) THEN FALSE
       ELSE TRUE

----------------------------------------------------------------------------
(* sanitizeInput *)

WhiteSpace == {" "}

\* the double quote and the backtick, written as names
DQUOTE == "dquote"

BACKTICK == "backtick"

\* /[&<>"'`=\/]/
DangerChars == {"&", "<", ">", DQUOTE, "'", BACKTICK, "=", "/"}

SANITIZE_MAX == 255

Min(a, b) == IF a < b THEN a ELSE b

\* s.trim()
Trim(s) ==
    LET idx == {i \in 1..Len(s) : s[i] \notin WhiteSpace}
    IN IF idx = {} THEN <<>>
       ELSE SubSeq(s, CHOOSE i \in idx : \A j \in idx : i <= j,
                      CHOOSE i \in idx : \A j \in idx : i >= j)

\* a sanitizeInput that strips the dangerous characters before it trims
sanitizeInputStripFirst(input) ==
    LET stripped == SelectSeq(input, LAMBDA c : c \notin DangerChars)
        trimmed == Trim(stripped)
    IN SubSeq(trimmed, 1, Min(Len(trimmed), SANITIZE_MAX))

\* sanitizeInput for a string input
sanitizeInput(input) ==
    LET trimmed == Trim(input)
        noTags == SelectSeq(trimmed, LAMBDA c : c \notin {"<", ">"})
        noDanger == SelectSeq(noTags, LAMBDA c : c \notin DangerChars)
    IN SubSeq(noDanger, 1, Min(Len(noDanger), SANITIZE_MAX))

----------------------------------------------------------------------------
(* Rate limiting *)

WINDOW_MS == 15 * 60 * 1000

MAX_REQUESTS == 10

LOGIN_WINDOW_MS == 15 * 60 * 1000

MAX_LOGIN_ATTEMPTS == 5

\* a limiter that admits one request more than maxRequests
SlidingWindowOffByOne(history, t, windowMs, maxRequests) ==
    LET windowStart == t - windowMs
        kept == SelectSeq(history, LAMBDA time : time > windowStart)
    IN IF Len(kept) > maxRequests
       THEN [ok |-> FALSE, history |-> kept]
       ELSE [ok |-> TRUE, history |-> Append(kept, t)]

\* a limiter that records the attempt it denies
SlidingWindowRecordsDenied(history, t, windowMs, maxRequests) ==
    LET windowStart == t - windowMs
        kept == SelectSeq(history, LAMBDA time : time > windowStart)
    IN [ok |-> Len(kept) < maxRequests, history |-> Append(kept, t)]

\* The body shared by checkRateLimit and checkLoginAttempts, called at time t
\* on the stored history of one ip: the result and the history it leaves.
SlidingWindow(history, t, windowMs, maxRequests) ==
    LET windowStart == t - windowMs
        kept == SelectSeq(history, LAMBDA time : time > windowStart)
    IN IF Len(kept) >= maxRequests
       THEN [ok |-> FALSE, history |-> kept]
       ELSE [ok |-> TRUE, history |-> Append(kept, t)]

checkRateLimit(history, t) == SlidingWindow(history, t, WINDOW_MS, MAX_REQUESTS)

\* a login limiter with the limit of the submit limiter
checkLoginAttemptsTen(history, t) ==
    SlidingWindow(history, t, LOGIN_WINDOW_MS, MAX_REQUESTS)

checkLoginAttempts(history, t) ==
    SlidingWindow(history, t, LOGIN_WINDOW_MS, MAX_LOGIN_ATTEMPTS)

----------------------------------------------------------------------------
(* The KV store.  A key that may be absent holds {} or {value}. *)

EmptyKV ==
    [responses |-> <<>>,            \* response:<id> -> stored record
     list |-> {},                   \* responses:list
     recent |-> {},                 \* responses:recent
     stats |-> {},                  \* stats
     last_submission_date |-> {}]   \* last_submission_date

\* kv.get(key) || default
GetOr(slot, default) == IF slot = {} THEN default ELSE CHOOSE v \in slot : TRUE

\* kv.put('response:' + id, value)
PutResponse(responses, id, value) ==
    [k \in DOMAIN responses \cup {id} |-> IF k = id THEN value ELSE responses[k]]

RECENT_MAX == 50

DayMs == 24 * 60 * 60 * 1000

\* new Date().toISOString().split('T')[0] when the clock reads t
IsoDate(t) == <<EpochYear, t \div DayMs>>

\* generateResponseId: the clock reading and the random suffix
generateResponseId(t, random) == <<"resp", t, random>>

----------------------------------------------------------------------------
(* onRequestPost of submit.js *)

(* A request body is what request.json() makes of it: kind "malformed" (it  *)
(* throws), "null" (the JSON text null), "scalar" (a JSON number, string or *)
(* boolean: every property reads undefined) or "object", whose present      *)
(* properties are named by has.  Header values are strings, "" when absent. *)

requiredFields == <<"name", "dob", "mobile", "father", "aadhar">>

\* !formData[field]
FieldMissing(body, field) ==
    \/ body.kind # "object"
    \/ field \notin body.has
    \/ body[field] = <<>>

\* request.headers.get('CF-Connecting-IP') || get('X-Forwarded-For') || 'unknown'
clientIP(cf, xff) == IF cf # "" THEN cf ELSE IF xff # "" THEN xff ELSE "unknown"

NAME_MIN == 2

NAME_MAX == 100

NoData == [id |-> <<>>, timestamp |-> -1, name |-> <<>>]

\* status 0: no Response, the handler's promise rejected with the error named
Response(status, error, missing, errors, retryAfter, data) ==
    [status |-> status, error |-> error, missing |-> missing, errors |-> errors,
     retryAfter |-> retryAfter, data |-> data]

RETRY_AFTER == 900

\* lines 155-162
Sanitize(body) ==
    [name |-> sanitizeInput(body.name),
     dob |-> body.dob,
     mobile |-> StripNonDigits(body.mobile),
     father |-> sanitizeInput(body.father),
     aadhar |-> StripNonDigits(body.aadhar)]

\* a validation that reports the first violation only
validationErrorsFirstOnly(sanitizedData, t) ==
    IF Len(sanitizedData.name) < NAME_MIN
    THEN <<"Name must be at least 2 characters long">>
    ELSE IF Len(sanitizedData.name) > NAME_MAX THEN <<"Name is too long">>
    ELSE IF ~validateDOB(sanitizedData.dob, t) THEN <<"Invalid date of birth">>
    ELSE IF ~validateIndianMobile(sanitizedData.mobile)
    THEN <<"Invalid Indian mobile number">>
    ELSE IF Len(sanitizedData.father) < NAME_MIN
    THEN <<"Father's name must be at least 2 characters long">>
    ELSE IF Len(sanitizedData.father) > NAME_MAX THEN <<"Father's name is too long">>
    ELSE IF ~validateAadhar(sanitizedData.aadhar) THEN <<"Invalid Aadhar number">>
    ELSE <<>>

\* lines 164-196: validationErrors after the last push
validationErrors(sanitizedData, t) ==
    (IF Len(sanitizedData.name) < NAME_MIN
     THEN <<"Name must be at least 2 characters long">> ELSE <<>>)
    \o (IF Len(sanitizedData.name) > NAME_MAX THEN <<"Name is too long">> ELSE <<>>)
    \o (IF ~validateDOB(sanitizedData.dob, t) THEN <<"Invalid date of birth">> ELSE <<>>)
    \o (IF ~validateIndianMobile(sanitizedData.mobile)
        THEN <<"Invalid Indian mobile number">> ELSE <<>>)
    \o (IF Len(sanitizedData.father) < NAME_MIN
        THEN <<"Father's name must be at least 2 characters long">> ELSE <<>>)
    \o (IF Len(sanitizedData.father) > NAME_MAX
        THEN <<"Father's name is too long">> ELSE <<>>)
    \o (IF ~validateAadhar(sanitizedData.aadhar)
        THEN <<"Invalid Aadhar number">> ELSE <<>>)

\* a persistence that puts the new id at the head of the Index
PersistUnshift(kvs, responseData, t) ==
    LET responseId == responseData.id
        timestamp == responseData.timestamp
        responsesList == <<responseId>> \o GetOr(kvs.list, <<>>)
        unshifted == <<[id |-> responseId, name |-> responseData.name,
                        timestamp |-> timestamp, mobile |-> responseData.mobile]>>
                     \o GetOr(kvs.recent, <<>>)
        recentResponses == IF Len(unshifted) > RECENT_MAX
                           THEN SubSeq(unshifted, 1, RECENT_MAX) ELSE unshifted
        stats == GetOr(kvs.stats, [total |-> 0, today |-> 0, lastUpdated |-> timestamp])
        today == IsoDate(t)
        firstToday == kvs.last_submission_date # {today}
    IN [responses |-> PutResponse(kvs.responses, responseId, responseData),
        list |-> {responsesList},
        recent |-> {recentResponses},
        stats |-> {[total |-> stats.total + 1,
                    today |-> IF firstToday THEN 1 ELSE stats.today + 1,
                    lastUpdated |-> timestamp]},
        last_submission_date |-> IF firstToday THEN {today}
                                 ELSE kvs.last_submission_date]

\* a store whose count of the day is never set back to 1
PersistTodayNeverReset(kvs, responseData, t) ==
    LET responseId == responseData.id
        timestamp == responseData.timestamp
        responsesList == Append(GetOr(kvs.list, <<>>), responseId)
        unshifted == <<[id |-> responseId, name |-> responseData.name,
                        timestamp |-> timestamp, mobile |-> responseData.mobile]>>
                     \o GetOr(kvs.recent, <<>>)
        recentResponses == IF Len(unshifted) > RECENT_MAX
                           THEN SubSeq(unshifted, 1, RECENT_MAX) ELSE unshifted
        stats == GetOr(kvs.stats, [total |-> 0, today |-> 0, lastUpdated |-> timestamp])
        today == IsoDate(t)
        firstToday == kvs.last_submission_date # {today}
    IN [responses |-> PutResponse(kvs.responses, responseId, responseData),
        list |-> {responsesList},
        recent |-> {recentResponses},
        stats |-> {[total |-> stats.total + 1,
                    today |-> stats.today + 1,
                    lastUpdated |-> timestamp]},
        last_submission_date |-> IF firstToday THEN {today}
                                 ELSE kvs.last_submission_date]

\* a store whose recent list, when full, drops the newest summary
PersistRecentDropsNewest(kvs, responseData, t) ==
    LET responseId == responseData.id
        timestamp == responseData.timestamp
        responsesList == Append(GetOr(kvs.list, <<>>), responseId)
        unshifted == <<[id |-> responseId, name |-> responseData.name,
                        timestamp |-> timestamp, mobile |-> responseData.mobile]>>
                     \o GetOr(kvs.recent, <<>>)
        recentResponses == IF Len(unshifted) > RECENT_MAX
                           THEN SubSeq(unshifted, 2, RECENT_MAX + 1) ELSE unshifted
        stats == GetOr(kvs.stats, [total |-> 0, today |-> 0, lastUpdated |-> timestamp])
        today == IsoDate(t)
        firstToday == kvs.last_submission_date # {today}
    IN [responses |-> PutResponse(kvs.responses, responseId, responseData),
        list |-> {responsesList},
        recent |-> {recentResponses},
        stats |-> {[total |-> stats.total + 1,
                    today |-> IF firstToday THEN 1 ELSE stats.today + 1,
                    lastUpdated |-> timestamp]},
        last_submission_date |-> IF firstToday THEN {today}
                                 ELSE kvs.last_submission_date]

\* a store whose total is counted on the first submission of a day only
PersistTotalOncePerDay(kvs, responseData, t) ==
    LET responseId == responseData.id
        timestamp == responseData.timestamp
        responsesList == Append(GetOr(kvs.list, <<>>), responseId)
        unshifted == <<[id |-> responseId, name |-> responseData.name,
                        timestamp |-> timestamp, mobile |-> responseData.mobile]>>
                     \o GetOr(kvs.recent, <<>>)
        recentResponses == IF Len(unshifted) > RECENT_MAX
                           THEN SubSeq(unshifted, 1, RECENT_MAX) ELSE unshifted
        stats == GetOr(kvs.stats, [total |-> 0, today |-> 0, lastUpdated |-> timestamp])
        today == IsoDate(t)
        firstToday == kvs.last_submission_date # {today}
    IN [responses |-> PutResponse(kvs.responses, responseId, responseData),
        list |-> {responsesList},
        recent |-> {recentResponses},
        stats |-> {[total |-> IF firstToday THEN stats.total + 1 ELSE stats.total,
                    today |-> IF firstToday THEN 1 ELSE stats.today + 1,
                    lastUpdated |-> timestamp]},
        last_submission_date |-> IF firstToday THEN {today}
                                 ELSE kvs.last_submission_date]

\* lines 223-276: the store after the four writes of a submission, all succeeding
Persist(kvs, responseData, t) ==
    LET responseId == responseData.id
        timestamp == responseData.timestamp
        responsesList == Append(GetOr(kvs.list, <<>>), responseId)
        unshifted == <<[id |-> responseId, name |-> responseData.name,
                        timestamp |-> timestamp, mobile |-> responseData.mobile]>>
                     \o GetOr(kvs.recent, <<>>)
        recentResponses == IF Len(unshifted) > RECENT_MAX
                           THEN SubSeq(unshifted, 1, RECENT_MAX) ELSE unshifted
        stats == GetOr(kvs.stats, [total |-> 0, today |-> 0, lastUpdated |-> timestamp])
        today == IsoDate(t)
        firstToday == kvs.last_submission_date # {today}
    IN [responses |-> PutResponse(kvs.responses, responseId, responseData),
        list |-> {responsesList},
        recent |-> {recentResponses},
        stats |-> {[total |-> stats.total + 1,
                    today |-> IF firstToday THEN 1 ELSE stats.today + 1,
                    lastUpdated |-> timestamp]},
        last_submission_date |-> IF firstToday THEN {today}
                                 ELSE kvs.last_submission_date]

\* a handler that stores the record before it validates the fields
onRequestPostStoreFirst(store, kvs, t, cf, xff, ua, body, random) ==
    LET ip == clientIP(cf, xff)
        limit == checkRateLimit(store[ip], t)
        store1 == [store EXCEPT ![ip] = limit.history]
        missingFields == SelectSeq(requiredFields, LAMBDA f : FieldMissing(body, f))
        sanitizedData == Sanitize(body)
        errs == validationErrors(sanitizedData, t)
        responseData == [id |-> generateResponseId(t, random),
                         name |-> sanitizedData.name, dob |-> sanitizedData.dob,
                         mobile |-> sanitizedData.mobile,
                         father |-> sanitizedData.father,
                         aadhar |-> sanitizedData.aadhar,
                         timestamp |-> t, ip |-> ip,
                         userAgent |-> IF ua # "" THEN ua ELSE "unknown"]
        out(k, r) == [rateLimitStore |-> store1, kv |-> k, resp |-> r]
    IN IF ~limit.ok
       THEN out(kvs, Response(429, "Rate limit exceeded. Please try again later.",
                              <<>>, <<>>, RETRY_AFTER, NoData))
       ELSE IF body.kind = "malformed"
       THEN out(kvs, Response(400, "Invalid JSON data", <<>>, <<>>, 0, NoData))
       ELSE IF body.kind = "null"
       THEN out(kvs, Response(0, "ReferenceError: CONFIG is not defined",
                              <<>>, <<>>, 0, NoData))
       ELSE IF Len(missingFields) > 0
       THEN out(kvs, Response(400, "Missing required fields", missingFields,
                              <<>>, 0, NoData))
       ELSE IF Len(errs) > 0
       THEN out(Persist(kvs, responseData, t),
                Response(400, "", <<>>, errs, 0, NoData))
       ELSE out(Persist(kvs, responseData, t),
                Response(201, "", <<>>, <<>>, 0,
                         [id |-> responseData.id, timestamp |-> t,
                          name |-> sanitizedData.name]))

(* onRequestPost on a request that arrives when the clock reads t, with the *)
(* rate limit table store and the KV store kvs, every KV operation          *)
(* succeeding: the table, the store and the Response it leaves.             *)
onRequestPost(store, kvs, t, cf, xff, ua, body, random) ==
    LET ip == clientIP(cf, xff)
        limit == checkRateLimit(store[ip], t)
        store1 == [store EXCEPT ![ip] = limit.history]
        missingFields == SelectSeq(requiredFields, LAMBDA f : FieldMissing(body, f))
        sanitizedData == Sanitize(body)
        errs == validationErrors(sanitizedData, t)
        responseData == [id |-> generateResponseId(t, random),
                         name |-> sanitizedData.name, dob |-> sanitizedData.dob,
                         mobile |-> sanitizedData.mobile,
                         father |-> sanitizedData.father,
                         aadhar |-> sanitizedData.aadhar,
                         timestamp |-> t, ip |-> ip,
                         userAgent |-> IF ua # "" THEN ua ELSE "unknown"]
        out(k, r) == [rateLimitStore |-> store1, kv |-> k, resp |-> r]
    IN IF ~limit.ok
       THEN out(kvs, Response(429, "Rate limit exceeded. Please try again later.",
                              <<>>, <<>>, RETRY_AFTER, NoData))
       ELSE IF body.kind = "malformed"
       THEN out(kvs, Response(400, "Invalid JSON data", <<>>, <<>>, 0, NoData))
       ELSE IF body.kind = "null"
       \* formData[field] throws a TypeError; the catch block reads CONFIG,
       \* which submit.js does not define, and throws in its turn
       THEN out(kvs, Response(0, "ReferenceError: CONFIG is not defined",
                              <<>>, <<>>, 0, NoData))
       ELSE IF Len(missingFields) > 0
       THEN out(kvs, Response(400, "Missing required fields", missingFields,
                              <<>>, 0, NoData))
       ELSE IF Len(errs) > 0
       THEN out(kvs, Response(400, "", <<>>, errs, 0, NoData))
       ELSE out(Persist(kvs, responseData, t),
                Response(201, "", <<>>, <<>>, 0,
                         [id |-> responseData.id, timestamp |-> t,
                          name |-> sanitizedData.name]))

----------------------------------------------------------------------------
(* Inputs *)

Identities == {"ipA", "ipB", "unknown"}

GoodName == <<"R", "a", "v", "i">>

GoodDob == <<"1", "9", "9", "4">>

GoodMobile == <<"9", "1", "2", "3", "4", "5", "6", "7", "8", "9">>

GoodAadhar == <<"2", "3", "4", "1", "2", "3", "4", "1", "2", "3", "4", "0">>

\* "91234-56789" and "2341 2341 2340"
FormattedMobile == SubSeq(GoodMobile, 1, 5) \o <<"-">> \o SubSeq(GoodMobile, 6, 10)

FormattedAadhar ==
    SubSeq(GoodAadhar, 1, 4) \o <<" ">> \o SubSeq(GoodAadhar, 5, 8) \o <<" ">>
    \o SubSeq(GoodAadhar, 9, 12)

BadMobile == <<"1", "2", "3", "4", "5", "6", "7", "8", "9", "0">>

BadAadhar == <<"2", "3", "4", "1", "2", "3", "4", "1", "2", "3", "4", "6">>

FutureDob == <<"2", "0", "9", "3">>

AllFields == {requiredFields[i] : i \in 1..Len(requiredFields)}

ObjectBody(has, name, dob, mobile, father, aadhar) ==
    [kind |-> "object", has |-> has, name |-> name, dob |-> dob,
     mobile |-> mobile, father |-> father, aadhar |-> aadhar]

OtherBody(kind) ==
    [kind |-> kind, has |-> {}, name |-> <<>>, dob |-> <<>>, mobile |-> <<>>,
     father |-> <<>>, aadhar |-> <<>>]

GoodBody == ObjectBody(AllFields, GoodName, GoodDob, GoodMobile, <<"O", "m">>, GoodAadhar)

\* the bodies of the requests of Spec
Bodies ==
    { GoodBody,
      ObjectBody(AllFields, GoodName, GoodDob, BadMobile, <<"O", "m">>, GoodAadhar),
      ObjectBody(AllFields \ {"father"}, GoodName, GoodDob, BadMobile, <<>>, GoodAadhar),
      OtherBody("malformed"), OtherBody("null") }

NoRequest == [ip |-> "", ua |-> "", body |-> OtherBody("none")]

NoResponse == Response(-1, "", <<>>, <<>>, 0, NoData)

\* no login logged, stats:security absent
NoSecurityLog == [logs |-> <<>>, security |-> {}]

\* no admin-side request yet
NoQueryRequest == [op |-> "none"]

NoQueryResponse == [status |-> -1]

\* no session, no cache entry, no admin-side request, no submission in flight
InitAdmin ==
    /\ sessions = <<>>
    /\ seclog = NoSecurityLog
    /\ cache = <<>>
    /\ qreq = NoQueryRequest
    /\ qresp = NoQueryResponse
    /\ kvlog = <<>>
    /\ procs = <<>>

----------------------------------------------------------------------------
(* The submission pipeline: requests handled one after the other *)

Init ==
    /\ now = 0
    \* ipA has made no request yet, or nine at time 0
    /\ \E h \in {<<>>, Rep(0, MAX_REQUESTS - 1)} :
          rateLimitStore = [ip \in Identities |-> IF ip = "ipA" THEN h ELSE <<>>]
    /\ loginAttempts = [ip \in Identities |-> <<>>]
    /\ kv = EmptyKV
    /\ req = NoRequest
    /\ resp = NoResponse
    /\ nreq = 0
    /\ rlLog = <<>>
    /\ vfn = "onRequestPost"
    /\ vin = <<>>
    /\ vdone = FALSE
    /\ vres = FALSE
    /\ vmut = FALSE
    /\ InitAdmin

\* time passes
Tick ==
    /\ now < MaxTicks * TickMs
    /\ now' = now + TickMs
    /\ UNCHANGED adminVars
    /\ UNCHANGED <<rateLimitStore, loginAttempts, kv, req, resp, nreq, rlLog,
                   vfn, vin, vdone, vres, vmut>>

\* POST /api/submit
SubmitRequest(cf, xff, ua, body, random) ==
    /\ vfn = "onRequestPost"
    /\ nreq < MaxReqs
    /\ \E r \in {onRequestPost(rateLimitStore, kv, now, cf, xff, ua, body, random)} :
          /\ rateLimitStore' = r.rateLimitStore
          /\ kv' = r.kv
          /\ resp' = r.resp
    /\ req' = [ip |-> clientIP(cf, xff), ua |-> ua, body |-> body]
    /\ nreq' = nreq + 1
    /\ UNCHANGED adminVars
    /\ UNCHANGED <<now, loginAttempts, rlLog, vfn, vin, vdone, vres, vmut>>

Next ==
    \/ Tick
    \/ \E cf \in {"", "ipA"}, xff \in {"", "ipB"}, body \in Bodies,
          random \in 1..MaxRandom :
          SubmitRequest(cf, xff, "Mozilla", body, random)

Spec == Init /\ [][Next]_vars

----------------------------------------------------------------------------
(* One submission with its fields drawn from FieldBodies *)

FieldNames ==
    { GoodName, <<"a">>, <<"a", "<">>, <<"<", " ", "a">>, <<" ", "A", "l", " ">>,
      <<"O", "'", "N">>, Rep("a", NAME_MAX), Rep("a", NAME_MAX + 1),
      Rep("a", NAME_MAX) \o <<"<">>, Rep("a", SANITIZE_MAX + 1) }

FieldFathers == { <<"O", "m">>, <<"x">>, <<"<", ">">>, Rep("b", NAME_MAX + 1) }

FieldDobs == { GoodDob, FutureDob, <<"a", "b", "c", "d">> }

FieldMobiles == { GoodMobile, FormattedMobile, BadMobile, SubSeq(GoodMobile, 1, 9) }

FieldAadhars == { GoodAadhar, FormattedAadhar, BadAadhar, SubSeq(GoodAadhar, 1, 11) }

\* GoodBody with the value of one field replaced
WithField(field, value) == [GoodBody EXCEPT ![field] = value]

FieldBodies ==
    { ObjectBody(AllFields, n, d, m, f, a) :
        n \in FieldNames, d \in FieldDobs, m \in FieldMobiles, f \in FieldFathers,
        a \in FieldAadhars }
    \cup { [GoodBody EXCEPT !.has = h] : h \in SUBSET AllFields }
    \cup { WithField(f, <<>>) : f \in AllFields }
    \cup { [WithField("name", <<"a">>) EXCEPT !.has = AllFields \ {"dob", "aadhar"}] }
    \cup { OtherBody("malformed"), OtherBody("null"), OtherBody("scalar") }

InitFields ==
    /\ now \in {0, TickMs}
    /\ rateLimitStore = [ip \in Identities |-> <<>>]
    /\ loginAttempts = [ip \in Identities |-> <<>>]
    /\ kv = EmptyKV
    /\ req = NoRequest
    /\ resp = NoResponse
    /\ nreq = 0
    /\ rlLog = <<>>
    /\ vfn = "onRequestPost"
    /\ vin = <<>>
    /\ vdone = FALSE
    /\ vres = FALSE
    /\ vmut = FALSE
    /\ InitAdmin

NextFields ==
    \E ua \in {"", "Mozilla"}, body \in FieldBodies :
       /\ nreq = 0
       /\ SubmitRequest("ipA", "", ua, body, 1)

SpecFields == InitFields /\ [][NextFields]_vars

----------------------------------------------------------------------------
(* The validators on their own *)

AadharBases ==
    { <<"2", "3", "4", "1", "2", "3", "4", "1", "2">>,
      <<"9", "0", "8", "7", "5", "5", "6", "0", "9">> }

\* 12-digit strings: a base and every choice of the last three digits
AadharStrings ==
    { b \o <<x, y, z>> : b \in AadharBases, x \in DigitChars, y \in DigitChars,
                         z \in DigitChars }

AadharInputs ==
    AadharStrings
    \cup { SubSeq(s, 1, 4) \o <<" ">> \o SubSeq(s, 5, 8) \o <<"-">> \o SubSeq(s, 9, 12) :
             s \in {t \in AadharStrings : t[10] = "3"} }
    \cup { SubSeq(s, 1, 11) : s \in {t \in AadharStrings : t[10] = "3"} }
    \cup { s \o <<"0">> : s \in {t \in AadharStrings : t[10] = "3"} }
    \cup { <<>>, <<"a", "b", "c">> }

MobileHeads ==
    UNION { [1..n -> {"9", "6", "5", "-", " "}] : n \in 0..3 }

MobileTail == <<"1", "2", "3", "4", "5", "6", "7", "8", "9">>

MobileInputs ==
    { h \o SubSeq(MobileTail, 1, n) : h \in MobileHeads, n \in 7..9 }
    \cup { <<>>, <<"a", "b", "c">> }

DobInputs ==
    { <<a, b, c, d>> : a \in {"1", "2"}, b \in {"9", "0"}, c \in {"2", "9", "0"},
                       d \in {"3", "4", "5", "6"} }
    \cup { <<>>, <<"a", "b", "c", "d">> }

InitValidator ==
    /\ \/ vfn = "validateAadhar" /\ vin \in AadharInputs /\ now = 0
       \/ vfn = "validateIndianMobile" /\ vin \in MobileInputs /\ now = 0
       \/ vfn = "validateDOB" /\ vin \in DobInputs /\ now \in {0, TickMs}
    /\ rateLimitStore = [ip \in Identities |-> <<>>]
    /\ loginAttempts = [ip \in Identities |-> <<>>]
    /\ kv = EmptyKV
    /\ req = NoRequest
    /\ resp = NoResponse
    /\ nreq = 0
    /\ rlLog = <<>>
    /\ vdone = FALSE
    /\ vres = FALSE
    /\ vmut = FALSE
    /\ InitAdmin

CallValidateAadhar ==
    /\ vfn = "validateAadhar" /\ ~vdone
    /\ vres' = validateAadhar(vin)
    /\ vdone' = TRUE
    /\ UNCHANGED adminVars
    /\ UNCHANGED <<now, rateLimitStore, loginAttempts, kv, req, resp, nreq, rlLog,
                   vfn, vin, vmut>>

\* validateAadhar on an accepted 12-digit ID with one digit changed
CallValidateAadharChanged ==
    /\ vfn = "validateAadhar" /\ vdone /\ vres /\ ~vmut
    /\ Len(vin) = AADHAR_LEN
    /\ \E pos \in 1..AADHAR_LEN : \E c \in DigitChars \ {vin[pos]} :
          /\ vin' = [vin EXCEPT ![pos] = c]
          /\ vres' = validateAadhar(vin')
    /\ vmut' = TRUE
    /\ UNCHANGED adminVars
    /\ UNCHANGED <<now, rateLimitStore, loginAttempts, kv, req, resp, nreq, rlLog,
                   vfn, vdone>>

CallValidateIndianMobile ==
    /\ vfn = "validateIndianMobile" /\ ~vdone
    /\ vres' = validateIndianMobile(vin)
    /\ vdone' = TRUE
    /\ UNCHANGED adminVars
    /\ UNCHANGED <<now, rateLimitStore, loginAttempts, kv, req, resp, nreq, rlLog,
                   vfn, vin, vmut>>

CallValidateDOB ==
    /\ vfn = "validateDOB" /\ ~vdone
    /\ vres' = validateDOB(vin, now)
    /\ vdone' = TRUE
    /\ UNCHANGED adminVars
    /\ UNCHANGED <<now, rateLimitStore, loginAttempts, kv, req, resp, nreq, rlLog,
                   vfn, vin, vmut>>

NextValidator ==
    \/ CallValidateAadhar
    \/ CallValidateAadharChanged
    \/ CallValidateIndianMobile
    \/ CallValidateDOB

SpecValidator == InitValidator /\ [][NextValidator]_vars

----------------------------------------------------------------------------
(* The rate limiters on their own: the calls of one identity *)

InitRateLimit ==
    /\ vfn \in {"checkRateLimit", "checkLoginAttempts"}
    /\ now = 0
    /\ rateLimitStore = [ip \in Identities |-> <<>>]
    /\ loginAttempts = [ip \in Identities |-> <<>>]
    /\ kv = EmptyKV
    /\ req = NoRequest
    /\ resp = NoResponse
    /\ nreq = 0
    /\ rlLog = <<>>
    /\ vin = <<>>
    /\ vdone = FALSE
    /\ vres = FALSE
    /\ vmut = FALSE
    /\ InitAdmin

CallCheckRateLimit(ip) ==
    /\ vfn = "checkRateLimit"
    /\ Len(rlLog) < MaxCalls
    /\ \E r \in {checkRateLimit(rateLimitStore[ip], now)} :
          /\ rateLimitStore' = [rateLimitStore EXCEPT ![ip] = r.history]
          /\ rlLog' = Append(rlLog, [t |-> now, ok |-> r.ok])
    /\ UNCHANGED adminVars
    /\ UNCHANGED <<now, loginAttempts, kv, req, resp, nreq, vfn, vin, vdone, vres, vmut>>

CallCheckLoginAttempts(ip) ==
    /\ vfn = "checkLoginAttempts"
    /\ Len(rlLog) < MaxCalls
    /\ \E r \in {checkLoginAttempts(loginAttempts[ip], now)} :
          /\ loginAttempts' = [loginAttempts EXCEPT ![ip] = r.history]
          /\ rlLog' = Append(rlLog, [t |-> now, ok |-> r.ok])
    /\ UNCHANGED adminVars
    /\ UNCHANGED <<now, rateLimitStore, kv, req, resp, nreq, vfn, vin, vdone, vres, vmut>>

NextRateLimit ==
    \/ Tick
    \/ CallCheckRateLimit("ipA")
    \/ CallCheckLoginAttempts("ipA")

SpecRateLimit == InitRateLimit /\ [][NextRateLimit]_vars

----------------------------------------------------------------------------
(* The rules of the fields, stated on the submitted strings *)

\* the number of digit characters of s
NumDigits(s) == Cardinality({i \in 1..Len(s) : s[i] \in DigitChars})

IsDigitString(s, n) == Len(s) = n /\ \A i \in 1..n : s[i] \in DigitChars

\* the contribution of digit d at 0-based position i to the checksum
ChecksumTerm(i, d) ==
    IF i % 2 = 0 THEN d ELSE IF 2 * d > 9 THEN 2 * d - 9 ELSE 2 * d

\* the sum of the terms of the positions 0..n-1 of d
RECURSIVE ChecksumUpTo(_, _)
ChecksumUpTo(d, n) ==
    IF n = 0 THEN 0
    ELSE ChecksumUpTo(d, n - 1) + ChecksumTerm(n - 1, parseInt(d[n]))

\* the check digit of d is the one its first 11 digits ask for
ChecksumHolds(d) == parseInt(d[12]) = (10 - (ChecksumUpTo(d, 11) % 10)) % 10

\* the digits of s, in order
DigitsOf(s) == SelectSeq(s, LAMBDA c : c \in DigitChars)

AadharRule(s) == NumDigits(s) = 12 /\ ChecksumHolds(DigitsOf(s))

MobileRule(s) ==
    /\ NumDigits(s) = 10
    /\ \E i \in 1..Len(s) :
          /\ s[i] \in {"6", "7", "8", "9"}
          /\ \A j \in 1..(i - 1) : s[j] \notin DigitChars

\* the year a four-digit string names
YearOf(s) ==
    ((parseInt(s[1]) * 10 + parseInt(s[2])) * 10 + parseInt(s[3])) * 10 + parseInt(s[4])

\* The date s names is not after the instant t and at most 100 years before
\* it, both counted in ticks of the clock with 1000 ticks to the year.
DobRule(s, t) ==
    /\ IsDigitString(s, 4)
    /\ LET d == YearOf(s) * 1000
           n == EpochYear * 1000 + t \div TickMs
       IN d <= n /\ n - d <= 100 * 1000

\* the first and the last place of s that holds no white space (0 when none)
FirstInk(s) ==
    IF \A i \in 1..Len(s) : s[i] = " " THEN 0
    ELSE CHOOSE i \in 1..Len(s) : s[i] # " " /\ \A j \in 1..(i - 1) : s[j] = " "

LastInk(s) ==
    IF \A i \in 1..Len(s) : s[i] = " " THEN 0
    ELSE CHOOSE i \in 1..Len(s) : s[i] # " " /\ \A j \in (i + 1)..Len(s) : s[j] = " "

\* the length of s without the white space around it
TrimLength(s) == IF FirstInk(s) = 0 THEN 0 ELSE LastInk(s) - FirstInk(s) + 1

\* the length of what sanitizeInput keeps of s: its characters from the first
\* to the last that is no white space, the dangerous ones left out, at most 255
KeptLength(s) ==
    LET kept == {i \in FirstInk(s)..LastInk(s) :
                   i > 0 /\ s[i] \notin {"&", "<", ">", DQUOTE, "'", BACKTICK, "=", "/"}}
    IN IF Cardinality(kept) > 255 THEN 255 ELSE Cardinality(kept)

Messages(r) == {r.errors[i] : i \in 1..Len(r.errors)}

\* the fields of body that are absent or empty
MissingSet(body) ==
    IF body.kind = "object"
    THEN {f \in AllFields : f \notin body.has \/ body[f] = <<>>}
    ELSE AllFields

\* the last request passed the rate limit, parsed to an object and has every field
Validated ==
    /\ nreq > 0
    /\ resp.status # 429
    /\ req.body.kind = "object"
    /\ MissingSet(req.body) = {}

----------------------------------------------------------------------------
(* Claims *)

(* C1: for every 12-digit string d, validateAadhar(d) is true iff d[11] is  *)
(* (10 - S mod 10) mod 10, S summing the first 11 digits, those at even     *)
(* 0-based positions as they are and those at odd positions doubled, minus  *)
(* 9 when the double exceeds 9; an input whose digits are not 12 in number  *)
(* is rejected.                                                             *)
C1_AadharChecksum ==
    (vfn = "validateAadhar" /\ vdone) =>
        /\ IsDigitString(vin, 12) => (vres <=> ChecksumHolds(vin))
        /\ NumDigits(vin) # 12 => ~vres

C1_Witness ==
    /\ vfn = "validateAadhar" /\ vdone /\ ~vmut
    /\ IsDigitString(vin, 12) /\ vres
    /\ \E i \in {2, 4, 6, 8, 10} : parseInt(vin[i]) > 4

(* C2: every variant of an accepted 12-digit ID that differs from it in     *)
(* exactly one digit is rejected by validateAadhar.                         *)
C2_SingleDigitChangeRejected == vmut => ~vres

C2_Witness == vmut /\ IsDigitString(vin, 12) /\ ~vres

(* C3: validateIndianMobile accepts an input iff, after all its non-digit   *)
(* characters are removed, exactly 10 digits remain and the first of them   *)
(* is 6, 7, 8 or 9.                                                         *)
C3_MobileRule ==
    (vfn = "validateIndianMobile" /\ vdone) => (vres <=> MobileRule(vin))

C3_Witness ==
    /\ vfn = "validateIndianMobile" /\ vdone /\ vres
    /\ \E i \in 1..Len(vin) : vin[i] \notin DigitChars

(* C4: validateDOB(d) is true iff d parses to a date that is not after the  *)
(* current instant and not more than 100 years before it; text that is no   *)
(* date, a future date and a date 101 years back are rejected, a date 30    *)
(* years back is accepted.                                                  *)
C4_DobRule ==
    (vfn = "validateDOB" /\ vdone) =>
        /\ vres <=> DobRule(vin, now)
        /\ ~IsDigitString(vin, 4) => ~vres
        /\ (IsDigitString(vin, 4) /\ YearOf(vin) > EpochYear) => ~vres
        /\ (IsDigitString(vin, 4) /\ YearOf(vin) = EpochYear - 101) => ~vres
        /\ (IsDigitString(vin, 4) /\ YearOf(vin) = EpochYear - 30) => vres

\* the date is the current instant, or exactly 100 years before it
C4_Witness ==
    /\ vfn = "validateDOB" /\ vdone /\ vres /\ now = 0
    /\ IsDigitString(vin, 4)
    /\ YearOf(vin) = EpochYear - 100

(* C5, as claimed: a submission passes the validation of the name (and of   *)
(* the father's name) iff the trimmed length of the submitted value is in   *)
(* [2, 100].                                                                *)
NameMessages ==
    {"Name must be at least 2 characters long", "Name is too long"}

FatherMessages ==
    {"Father's name must be at least 2 characters long", "Father's name is too long"}

C5_TrimmedLengthDecides ==
    Validated =>
        /\ (Messages(resp) \cap NameMessages = {})
             <=> TrimLength(req.body.name) \in 2..100
        /\ (Messages(resp) \cap FatherMessages = {})
             <=> TrimLength(req.body.father) \in 2..100

(* C5, amended: a submission whose name is a string passes the validation   *)
(* of the name (and likewise of the father's name) iff the length of the    *)
(* sanitized value is in [2, 100]: the value trimmed, then without its      *)
(* characters & < > " ' ` = /, then cut to 255 characters.                  *)
C5_SanitizedLengthDecides ==
    Validated =>
        /\ (Messages(resp) \cap NameMessages = {})
             <=> KeptLength(req.body.name) \in 2..100
        /\ (Messages(resp) \cap FatherMessages = {})
             <=> KeptLength(req.body.father) \in 2..100

\* a name of trimmed length 101 that passes, its sanitized length being 100
C5_Witness ==
    /\ Validated
    /\ TrimLength(req.body.name) = 101
    /\ Messages(resp) \cap NameMessages = {}

(* C6: the 400 response of a submission that violates several field rules   *)
(* lists one message for every violated rule (name, dob, mobile, father,    *)
(* national ID), not only the first; the list is empty iff the submission   *)
(* proceeds to storage.                                                     *)
C6_AllViolationsListed ==
    Validated =>
        /\ "Name must be at least 2 characters long" \in Messages(resp)
             <=> KeptLength(req.body.name) < 2
        /\ "Name is too long" \in Messages(resp) <=> KeptLength(req.body.name) > 100
        /\ "Invalid date of birth" \in Messages(resp) <=> ~DobRule(req.body.dob, now)
        /\ "Invalid Indian mobile number" \in Messages(resp)
             <=> ~MobileRule(req.body.mobile)
        /\ "Father's name must be at least 2 characters long" \in Messages(resp)
             <=> KeptLength(req.body.father) < 2
        /\ "Father's name is too long" \in Messages(resp)
             <=> KeptLength(req.body.father) > 100
        /\ "Invalid Aadhar number" \in Messages(resp) <=> ~AadharRule(req.body.aadhar)
        /\ Len(resp.errors) = Cardinality(Messages(resp))
        /\ resp.errors # <<>> <=> resp.status = 400
        /\ resp.errors = <<>> <=>
             /\ resp.status = 201
             /\ resp.data.id \in DOMAIN kv.responses
             /\ kv.list = {<<resp.data.id>>}

\* the five fields all violate their rule, and five messages come back
C6_Witness ==
    /\ Validated
    /\ resp.status = 400
    /\ Len(resp.errors) = 5
    /\ kv = EmptyKV

(* C7: with maxRequests = N and window W, from an empty history of an       *)
(* identity, the first N calls of the limiter within W return true, the     *)
(* next call within W returns false, and a call made more than W after the  *)
(* allowed calls returns true again.                                        *)
LimitOf(f) == IF f = "checkRateLimit" THEN 10 ELSE 5

WindowOf(f) == 15 * 60 * 1000

C7_SlidingWindow ==
    vfn \in {"checkRateLimit", "checkLoginAttempts"} =>
        LET N == LimitOf(vfn)
            W == WindowOf(vfn)
        IN /\ \A k \in 1..Len(rlLog) :
                 (k <= N /\ rlLog[k].t - rlLog[1].t < W) => rlLog[k].ok
           /\ (Len(rlLog) > N /\ rlLog[N + 1].t - rlLog[1].t < W) => ~rlLog[N + 1].ok
           /\ \A k \in 1..Len(rlLog) :
                 (\A j \in 1..(k - 1) : rlLog[j].ok => rlLog[k].t - rlLog[j].t > W)
                    => rlLog[k].ok

\* ten calls allowed, the eleventh denied, the twelfth, past the window, allowed
C7_Witness ==
    /\ vfn = "checkRateLimit"
    /\ Len(rlLog) = 12
    /\ \A k \in 1..10 : rlLog[k].ok
    /\ ~rlLog[11].ok /\ rlLog[11].t - rlLog[1].t < WindowOf(vfn)
    /\ rlLog[12].ok /\ rlLog[12].t - rlLog[10].t > WindowOf(vfn)

\* the submissions recorded in h that were made less than 15 minutes before t
InWindow(h, t) == Cardinality({i \in 1..Len(h) : t - h[i] < 15 * 60 * 1000})

(* C8: when an identity has made 10 submissions inside the 15-minute        *)
(* window, its next submission is answered 429 with a Retry-After of the    *)
(* window's length, 900 s; and the request of one identity never changes    *)
(* the recorded history of another.                                         *)
C8_LimitedPerIdentity ==
    [][nreq' # nreq =>
         /\ InWindow(rateLimitStore[req'.ip], now) >= 10 =>
               /\ resp'.status = 429
               /\ resp'.retryAfter = 900
               /\ resp'.retryAfter * 1000 = WINDOW_MS
         /\ \A ip \in Identities \ {req'.ip} :
               rateLimitStore'[ip] = rateLimitStore[ip]]_vars

C8_Witness ==
    /\ nreq = 2
    /\ resp.status = 429
    /\ Len(rateLimitStore[req.ip]) = 10

\* every field of the object b keeps its rule when the clock reads t
FieldRulesHold(b, t) ==
    /\ KeptLength(b.name) \in 2..100
    /\ DobRule(b.dob, t)
    /\ MobileRule(b.mobile)
    /\ KeptLength(b.father) \in 2..100
    /\ AadharRule(b.aadhar)

(* C9: the gates of a submission run in the order rate limit, parse,        *)
(* presence, sanitize and validate, and the first that fails ends the       *)
(* request; a submission answered 429 or 400 writes nothing to the store.   *)
C9_FailedGateWritesNothing ==
    [][nreq' # nreq =>
         LET admitted == InWindow(rateLimitStore[req'.ip], now) < 10
             b == req'.body
         IN /\ ~admitted => resp'.status = 429
            /\ (admitted /\ b.kind = "malformed") =>
                  resp'.status = 400 /\ resp'.error = "Invalid JSON data"
            /\ (admitted /\ b.kind = "object" /\ MissingSet(b) # {}) =>
                  /\ resp'.status = 400
                  /\ resp'.error = "Missing required fields"
                  /\ resp'.errors = <<>>
            /\ (admitted /\ b.kind = "object" /\ MissingSet(b) = {}
                  /\ ~FieldRulesHold(b, now)) =>
                  resp'.status = 400 /\ resp'.errors # <<>>
            /\ resp'.status \in {429, 400} => kv' = kv]_vars

\* a request refused after a record was stored
C9_Witness ==
    /\ nreq = 2
    /\ resp.status \in {429, 400}
    /\ kv.list # {}

(* C10: every submit request that passes the rate limit and whose body is   *)
(* malformed, is no structured object, or lacks (or has empty) any of name, *)
(* dob, mobile, father, national ID is answered 400, and a missing-field    *)
(* response names exactly the missing fields.                               *)
C10_BadBodyAnswered400 ==
    (/\ nreq > 0
     /\ resp.status # 429
     /\ req.body.kind # "object" \/ MissingSet(req.body) # {}) =>
        /\ resp.status = 400
        /\ resp.error = "Missing required fields" =>
              /\ {resp.missing[i] : i \in 1..Len(resp.missing)} = MissingSet(req.body)
              /\ Len(resp.missing) = Cardinality(MissingSet(req.body))

----------------------------------------------------------------------------
(* paginateArray of responses.js *)

\* array.slice(start, end) on 0-based positions, negative ones counted from the end
Slice(array, start, end) ==
    LET len == Len(array)
        from == IF start < 0 THEN (IF len + start < 0 THEN 0 ELSE len + start)
                ELSE Min(start, len)
        to == IF end < 0 THEN (IF len + end < 0 THEN 0 ELSE len + end)
              ELSE Min(end, len)
    IN IF to <= from THEN <<>> ELSE SubSeq(array, from + 1, to)

\* Math.ceil(n / d) for n >= 0 and d # 0
CeilDiv(n, d) == IF d > 0 THEN (n + d - 1) \div d ELSE 0 - (n \div (0 - d))

\* a pagination that takes the page number as 0-based
paginateArrayFromZero(array, page, limit) ==
    LET offset == page * limit
        totalPages == CeilDiv(Len(array), limit)
    IN [items |-> Slice(array, offset, offset + limit),
        pagination |-> [page |-> page, limit |-> limit, totalItems |-> Len(array),
                        totalPages |-> totalPages,
                        hasNextPage |-> page < totalPages,
                        hasPrevPage |-> page > 1]]

paginateArray(array, page, limit) ==
    LET offset == (page - 1) * limit
        totalPages == CeilDiv(Len(array), limit)
    IN [items |-> Slice(array, offset, offset + limit),
        pagination |-> [page |-> page, limit |-> limit, totalItems |-> Len(array),
                        totalPages |-> totalPages,
                        hasNextPage |-> page < totalPages,
                        hasPrevPage |-> page > 1]]

\* the longest array paginated
MaxItems == 7
\* the last page asked for
MaxPage == 4
\* the largest limit asked for, next to the cap
MaxLimit == 4

\* Math.min(limit, 100) of onRequestGet
LIMIT_CAP == 100

InitPaginate ==
    /\ vfn = "paginateArray"
    /\ \E n \in 0..MaxItems : vin = [i \in 1..n |-> i]
    /\ \E page \in 1..MaxPage, limit \in (1..MaxLimit) \cup {LIMIT_CAP} :
          qreq = [op |-> "paginateArray", page |-> page, limit |-> limit]
    /\ now = 0
    /\ rateLimitStore = [ip \in Identities |-> <<>>]
    /\ loginAttempts = [ip \in Identities |-> <<>>]
    /\ kv = EmptyKV
    /\ req = NoRequest
    /\ resp = NoResponse
    /\ nreq = 0
    /\ rlLog = <<>>
    /\ vdone = FALSE
    /\ vres = FALSE
    /\ vmut = FALSE
    /\ sessions = <<>>
    /\ seclog = NoSecurityLog
    /\ cache = <<>>
    /\ qresp = NoQueryResponse
    /\ kvlog = <<>>
    /\ procs = <<>>

CallPaginateArray ==
    /\ vfn = "paginateArray" /\ ~vdone
    /\ vres' = paginateArray(vin, qreq.page, qreq.limit)
    /\ vdone' = TRUE
    /\ UNCHANGED <<now, rateLimitStore, loginAttempts, kv, req, resp, nreq, rlLog,
                   vfn, vin, vmut, sessions, seclog, cache, qreq, qresp, kvlog,
                   procs>>

NextPaginate == CallPaginateArray

SpecPaginate == InitPaginate /\ [][NextPaginate]_vars

\* the least number of pages of the given size that hold n items
PagesFor(n, limit) == CHOOSE k \in 0..n : k * limit >= n /\ (k = 0 \/ (k - 1) * limit < n)

\* the 1-based positions of the array that page holds
PagePositions(n, page, limit) ==
    {i \in 1..n : (page - 1) * limit < i /\ i <= page * limit}

(* C18: for page >= 1 and 1 <= limit <= 100, paginateArray returns exactly  *)
(* the items at the 0-based positions [(page-1)*limit, page*limit) of the   *)
(* array, in order, so at most limit of them; totalPages is                 *)
(* ceil(totalItems/limit), hasNextPage is page < totalPages and hasPrevPage *)
(* is page > 1.                                                             *)
C18_PageIsTheSlice ==
    (vfn = "paginateArray" /\ vdone) =>
        LET n == Len(vin)
            page == qreq.page
            limit == qreq.limit
            pos == PagePositions(n, page, limit)
            p == vres.pagination
        IN /\ Len(vres.items) = Cardinality(pos)
           /\ \A i \in 1..Len(vres.items) : vres.items[i] = vin[(page - 1) * limit + i]
           /\ Len(vres.items) <= limit
           /\ p.totalItems = n
           /\ p.totalPages = PagesFor(n, limit)
           /\ p.hasNextPage = (page < p.totalPages)
           /\ p.hasPrevPage = (page > 1)
           /\ p.page = page /\ p.limit = limit

\* a middle page that is full, with a page before and a page after it
C18_Witness ==
    /\ vfn = "paginateArray" /\ vdone
    /\ qreq.page = 2 /\ qreq.limit = 3 /\ Len(vin) = MaxItems
    /\ vres.items = <<4, 5, 6>>
    /\ vres.pagination.totalPages = 3
    /\ vres.pagination.hasNextPage /\ vres.pagination.hasPrevPage

----------------------------------------------------------------------------
(* onRequestPost of submit.js when an operation of the KV store throws *)

\* a KV operation: get, put or delete on a key of the given family
KvOp(op, key) == [op |-> op, key |-> key]

\* the call sites with the Index written before the record
SubmitSitesIndexFirst ==
    <<KvOp("get", "responses:list"), KvOp("put", "responses:list"),
      KvOp("put", "response"), KvOp("get", "responses:recent"),
      KvOp("put", "responses:recent"), KvOp("get", "stats"),
      KvOp("get", "last_submission_date"), KvOp("put", "last_submission_date"),
      KvOp("put", "stats")>>

(* The KV call sites of onRequestPost, in the order it reaches them         *)
(* (lines 227, 235, 237, 240, 253, 256, 266, 270, 276).  The put of         *)
(* last_submission_date is reached on the first submission of a day only.   *)
SubmitSites ==
    <<KvOp("put", "response"), KvOp("get", "responses:list"),
      KvOp("put", "responses:list"), KvOp("get", "responses:recent"),
      KvOp("put", "responses:recent"), KvOp("get", "stats"),
      KvOp("get", "last_submission_date"), KvOp("put", "last_submission_date"),
      KvOp("put", "stats")>>

\* the call site that writes last_submission_date
DatePutSite == CHOOSE i \in 1..Len(SubmitSites) :
                   SubmitSites[i] = KvOp("put", "last_submission_date")

\* the sites a submission reaches before site failAt (all of them when failAt = 0)
SitesReached(firstToday, failAt) ==
    LET last == IF failAt = 0 THEN Len(SubmitSites) ELSE failAt - 1
    IN SelectSeq(SubSeq(SubmitSites, 1, last),
                 LAMBDA o : firstToday \/ o # SubmitSites[DatePutSite])

\* the store when site failAt throws: the writes before it are done, of the
\* store full that the submission leaves when nothing throws
StoreWhenThrows(kvs, full, failAt) ==
    LET done(key) == \E i \in 1..(failAt - 1) : SubmitSites[i] = KvOp("put", key)
    IN [responses |-> IF done("response") THEN full.responses ELSE kvs.responses,
        list |-> IF done("responses:list") THEN full.list ELSE kvs.list,
        recent |-> IF done("responses:recent") THEN full.recent ELSE kvs.recent,
        stats |-> IF done("stats") THEN full.stats ELSE kvs.stats,
        last_submission_date |-> IF done("last_submission_date")
                                 THEN full.last_submission_date
                                 ELSE kvs.last_submission_date]

(* onRequestPost when KV call site failAt throws on being reached (0: none  *)
(* throws).  The error lands in the catch block, whose CONFIG.DEBUG_MODE    *)
(* (line 309) reads a name submit.js does not define.                       *)
onRequestPostThrows(store, kvs, t, cf, xff, ua, body, random, failAt) ==
    LET r == onRequestPost(store, kvs, t, cf, xff, ua, body, random)
        firstToday == r.kv.last_submission_date # kvs.last_submission_date
        thrown == /\ r.resp.status = 201
                  /\ failAt \in 1..Len(SubmitSites)
                  /\ (failAt = DatePutSite => firstToday)
    IN IF thrown
       THEN [rateLimitStore |-> r.rateLimitStore,
             kv |-> StoreWhenThrows(kvs, r.kv, failAt),
             resp |-> Response(0, "ReferenceError: CONFIG is not defined",
                               <<>>, <<>>, 0, NoData),
             log |-> Append(SitesReached(firstToday, failAt), KvOp("throw", "")),
             thrown |-> TRUE]
       ELSE [rateLimitStore |-> r.rateLimitStore, kv |-> r.kv, resp |-> r.resp,
             log |-> IF r.resp.status = 201 THEN SitesReached(firstToday, 0)
                     ELSE IF r.resp.status = 0 THEN <<KvOp("throw", "")>>
                     ELSE <<>>,
             thrown |-> r.resp.status = 0]

\* the handler that left this log had a step throw
Threw(log) == log # <<>> /\ log[Len(log)].op = "throw"

\* POST /api/submit while the KV store may fail
SubmitRequestThrows(cf, xff, ua, body, random, failAt) ==
    /\ vfn = "onRequestPost"
    /\ nreq < MaxReqs
    /\ \E r \in {onRequestPostThrows(rateLimitStore, kv, now, cf, xff, ua, body,
                                      random, failAt)} :
          /\ rateLimitStore' = r.rateLimitStore
          /\ kv' = r.kv
          /\ resp' = r.resp
          /\ kvlog' = r.log
    /\ req' = [ip |-> clientIP(cf, xff), ua |-> ua, body |-> body]
    /\ nreq' = nreq + 1
    /\ UNCHANGED <<now, loginAttempts, rlLog, vfn, vin, vdone, vres, vmut,
                   sessions, seclog, cache, qreq, qresp, procs>>

\* a second valid body
OtherGoodBody ==
    ObjectBody(AllFields, <<"A", "n", "u">>, GoodDob, GoodMobile, <<"O", "m">>,
               GoodAadhar)

NextStore ==
    \/ Tick
    \/ \E body \in {GoodBody, OtherGoodBody, OtherBody("null"), OtherBody("malformed")},
          random \in 1..MaxRandom, failAt \in 0..Len(SubmitSites) :
          SubmitRequestThrows("ipA", "", "Mozilla", body, random, failAt)

SpecStore == Init /\ [][NextStore]_vars

(* C11: whatever step of the submit handler throws, a KV operation          *)
(* included, the handler still returns a Response, with status 500: no      *)
(* exception leaves the handler.                                            *)
C11_ThrowAnswered500 ==
    req # NoRequest =>
        /\ resp.status # 0
        /\ (Threw(kvlog) => resp.status = 500)

----------------------------------------------------------------------------
(* Records and the Index *)

(* C12: a record, once written under its key, is never overwritten, changed *)
(* or deleted by a later operation: every key of a stored record keeps its  *)
(* value in every step.                                                     *)
C12_RecordsNeverOverwritten ==
    [][\A id \in DOMAIN kv.responses :
          /\ id \in DOMAIN kv'.responses
          /\ kv'.responses[id] = kv.responses[id]]_vars

(* C13: when submissions are handled one after the other and every KV       *)
(* operation succeeds, a submission answered 201 appends its id at the end  *)
(* of the Index and leaves the earlier entries in place, and every other    *)
(* step leaves the Index as it is: the Index holds one entry per accepted   *)
(* submission, in submission order, and none for a rejected one.            *)
C13_IndexAppendOnly ==
    [][LET old == GetOr(kv.list, <<>>)
           new == GetOr(kv'.list, <<>>)
       IN IF nreq' # nreq /\ resp'.status = 201
          THEN new = Append(old, resp'.data.id)
          ELSE new = old]_vars

\* two accepted submissions with different ids, the Index holding both in order
C13_Witness ==
    /\ nreq = 2 /\ resp.status = 201
    /\ Len(GetOr(kv.list, <<>>)) = 2
    /\ GetOr(kv.list, <<>>)[2] = resp.data.id
    /\ GetOr(kv.list, <<>>)[1] # resp.data.id

----------------------------------------------------------------------------
(* Submissions in flight together.  onRequestPost suspends at every await  *)
(* of a KV operation; between two of its awaits the other requests may run. *)
(* A request in flight is a record of procs: pc is the KV call site it      *)
(* reaches next (an index of SubmitSites), the other fields are the local   *)
(* variables of the handler.                                                *)

\* submissions started in one run
MaxProcs == 3

\* no value read yet
Unread == {}

\* lines 95-221: the gates and the construction of responseData, up to the
\* first KV call
StartSubmission(cf, xff, ua, body, random) ==
    /\ vfn = "onRequestPost"
    /\ Len(procs) < MaxProcs
    /\ \E r \in {onRequestPost(rateLimitStore, EmptyKV, now, cf, xff, ua, body, random)} :
          /\ rateLimitStore' = r.rateLimitStore
          /\ procs' = Append(procs,
                [pc |-> IF r.resp.status = 201 THEN 1 ELSE 0,
                 status |-> IF r.resp.status = 201 THEN -1 ELSE r.resp.status,
                 responseData |-> IF r.resp.status = 201
                                  THEN {r.kv.responses[r.resp.data.id]} ELSE {},
                 responsesList |-> Unread, recentResponses |-> Unread,
                 stats |-> Unread, lastSubmission |-> Unread, today |-> Unread])
    /\ UNCHANGED <<now, loginAttempts, kv, req, resp, nreq, rlLog, vfn, vin, vdone,
                   vres, vmut, sessions, seclog, cache, qreq, qresp, kvlog>>

\* the request p is about to run the KV call site named
AtSite(p, op, key) ==
    /\ p \in 1..Len(procs)
    /\ procs[p].pc \in 1..Len(SubmitSites)
    /\ SubmitSites[procs[p].pc] = KvOp(op, key)

\* the local variables of p after the call site, and the store
Advance(p, locals, kvs) ==
    /\ procs' = [procs EXCEPT ![p] = [locals EXCEPT !.pc = procs[p].pc + 1]]
    /\ kv' = kvs
    /\ UNCHANGED <<now, rateLimitStore, loginAttempts, req, resp, nreq, rlLog, vfn,
                   vin, vdone, vres, vmut, sessions, seclog, cache, qreq, qresp,
                   kvlog>>

Data(p) == CHOOSE d \in procs[p].responseData : TRUE

\* line 227
PutRecord(p) ==
    /\ AtSite(p, "put", "response")
    /\ Advance(p, procs[p],
               [kv EXCEPT !.responses = PutResponse(kv.responses, Data(p).id, Data(p))])

\* lines 235-236
GetList(p) ==
    /\ AtSite(p, "get", "responses:list")
    /\ Advance(p, [procs[p] EXCEPT
                     !.responsesList = {Append(GetOr(kv.list, <<>>), Data(p).id)}],
               kv)

\* an Index write that appends to the Index of the moment of the write
PutListAppendsNow(p) ==
    /\ AtSite(p, "put", "responses:list")
    /\ Advance(p, procs[p],
               [kv EXCEPT !.list = {Append(GetOr(kv.list, <<>>), Data(p).id)}])

\* line 237
PutList(p) ==
    /\ AtSite(p, "put", "responses:list")
    /\ Advance(p, procs[p], [kv EXCEPT !.list = procs[p].responsesList])

\* lines 240-251
GetRecent(p) ==
    /\ AtSite(p, "get", "responses:recent")
    /\ LET unshifted == <<[id |-> Data(p).id, name |-> Data(p).name,
                           timestamp |-> Data(p).timestamp,
                           mobile |-> Data(p).mobile]>>
                        \o GetOr(kv.recent, <<>>)
       IN Advance(p, [procs[p] EXCEPT
                        !.recentResponses =
                            {IF Len(unshifted) > RECENT_MAX
                             THEN SubSeq(unshifted, 1, RECENT_MAX) ELSE unshifted}],
                  kv)

\* line 253
PutRecent(p) ==
    /\ AtSite(p, "put", "responses:recent")
    /\ Advance(p, procs[p], [kv EXCEPT !.recent = procs[p].recentResponses])

\* lines 256-265: stats read and incremented, today computed
GetStats(p) ==
    /\ AtSite(p, "get", "stats")
    /\ LET stats == GetOr(kv.stats, [total |-> 0, today |-> 0,
                                     lastUpdated |-> Data(p).timestamp])
       IN Advance(p, [procs[p] EXCEPT
                        !.stats = {[stats EXCEPT !.total = stats.total + 1]},
                        !.today = {IsoDate(now)}],
                  kv)

\* lines 266-273: the last submission date read, stats.today set; the put of
\* line 270 is skipped when the date is today's
GetLastDate(p) ==
    /\ AtSite(p, "get", "last_submission_date")
    /\ LET firstToday == kv.last_submission_date # procs[p].today
           stats == GetOr(procs[p].stats, <<>>)
           locals == [procs[p] EXCEPT
                        !.lastSubmission = kv.last_submission_date,
                        !.stats = {[stats EXCEPT
                                      !.today = IF firstToday THEN 1 ELSE stats.today + 1,
                                      !.lastUpdated = Data(p).timestamp]}]
       IN Advance(p, IF firstToday THEN locals
                     ELSE [locals EXCEPT !.pc = procs[p].pc + 1],
                  kv)

\* line 270
PutLastDate(p) ==
    /\ AtSite(p, "put", "last_submission_date")
    /\ Advance(p, procs[p], [kv EXCEPT !.last_submission_date = procs[p].today])

\* lines 275-299: stats written, 201 returned
PutStats(p) ==
    /\ AtSite(p, "put", "stats")
    /\ Advance(p, [procs[p] EXCEPT !.status = 201],
               [kv EXCEPT !.stats = procs[p].stats])

\* the submissions draw different random suffixes
NextConcurrent ==
    \/ \E body \in {GoodBody, OtherBody("malformed")} :
          StartSubmission("ipA", "", "Mozilla", body, Len(procs) + 1)
    \/ \E p \in 1..MaxProcs :
          \/ PutRecord(p)
          \/ GetList(p)
          \/ PutList(p)
          \/ GetRecent(p)
          \/ PutRecent(p)
          \/ GetStats(p)
          \/ GetLastDate(p)
          \/ PutLastDate(p)
          \/ PutStats(p)

InitConcurrent ==
    /\ now = 0
    /\ rateLimitStore = [ip \in Identities |-> <<>>]
    /\ loginAttempts = [ip \in Identities |-> <<>>]
    /\ kv = EmptyKV
    /\ req = NoRequest
    /\ resp = NoResponse
    /\ nreq = 0
    /\ rlLog = <<>>
    /\ vfn = "onRequestPost"
    /\ vin = <<>>
    /\ vdone = FALSE
    /\ vres = FALSE
    /\ vmut = FALSE
    /\ InitAdmin

SpecConcurrent == InitConcurrent /\ [][NextConcurrent]_vars

\* the total stored under the stats key, 0 while the key is absent
StoredTotal(kvs) == IF kvs.stats = {} THEN 0 ELSE GetOr(kvs.stats, <<>>).total

(* C14: in every execution, submissions interleaved at their awaits         *)
(* included, the total stored under the stats key never decreases from one  *)
(* write to the next.                                                       *)
C14_TotalNeverDecreases ==
    [][StoredTotal(kv') >= StoredTotal(kv)]_vars

----------------------------------------------------------------------------
(* Sessions (login handler, and validateAdminSession of responses.js)      *)

\* 24 * 60 * 60 * 1000, the age beyond which a session is expired
SESSION_MAX_AGE_MS == 24 * 60 * 60 * 1000

\* CONFIG.SESSION_DURATION, the expirationTtl of a session key, in seconds
SESSION_DURATION == 24 * 60 * 60

\* the function f without the key k
RemoveKey(f, k) == [x \in DOMAIN f \ {k} |-> f[x]]

\* a put that leaves no key but the one it writes
PutKeyAlone(f, k, v) == [x \in {k} |-> v]

\* the function f with the key k set to v
PutKey(f, k, v) == [x \in DOMAIN f \cup {k} |-> IF x = k THEN v ELSE f[x]]

\* generateSessionId: the clock reading and the random part
generateSessionId(t, random) == <<"sess", t, random>>

(* A Cookie header is the set of its name-value pairs, {} when the request  *)
(* has none.  cookies.admin_session is held as {} or {id}.                  *)
CookieSessionId(cookieHeader) ==
    {c.value : c \in {d \in cookieHeader : d.name = "admin_session"}}

\* kv.put('session:' + id, JSON.stringify(sessionData), {expirationTtl})
PutSession(sess, id, sessionData, t) ==
    PutKey(sess, id, [value |-> sessionData,
                      expiresAt |-> t + SESSION_DURATION * 1000])

\* a session check that never finds a session too old
validateAdminSessionNoExpiry(sess, t, cookieHeader, failAt) ==
    LET ids == CookieSessionId(cookieHeader)
        sessionId == CHOOSE id \in ids : TRUE
        out(valid, s, log, thrown) ==
            [valid |-> valid, sessions |-> s, log |-> log, thrown |-> thrown]
    IN IF ids = {} THEN out(FALSE, sess, <<>>, FALSE)
       ELSE IF failAt = 1 THEN out(FALSE, sess, <<KvOp("throw", "")>>, TRUE)
       ELSE IF sessionId \notin DOMAIN sess \/ ~sess[sessionId].value.loggedIn
       THEN out(FALSE, sess, <<KvOp("get", "session")>>, FALSE)
       ELSE out(TRUE, sess, <<KvOp("get", "session")>>, FALSE)

\* a validation that deletes the session whatever its age
validateAdminSessionDeletesYoung(sess, t, cookieHeader, failAt) ==
    LET ids == CookieSessionId(cookieHeader)
        sessionId == CHOOSE id \in ids : TRUE
        out(valid, s, log, thrown) ==
            [valid |-> valid, sessions |-> s, log |-> log, thrown |-> thrown]
    IN IF ids = {} THEN out(FALSE, sess, <<>>, FALSE)
       ELSE IF failAt = 1 THEN out(FALSE, sess, <<KvOp("throw", "")>>, TRUE)
       ELSE IF sessionId \notin DOMAIN sess \/ ~sess[sessionId].value.loggedIn
       THEN out(FALSE, sess, <<KvOp("get", "session")>>, FALSE)
       ELSE IF t - sess[sessionId].value.timestamp >= 0
       THEN IF failAt = 2
            THEN out(FALSE, sess, <<KvOp("get", "session"), KvOp("throw", "")>>, TRUE)
            ELSE out(FALSE, RemoveKey(sess, sessionId),
                     <<KvOp("get", "session"), KvOp("delete", "session")>>, FALSE)
       ELSE out(TRUE, sess, <<KvOp("get", "session")>>, FALSE)

(* validateAdminSession called at time t on the session keys sess, KV call  *)
(* number failAt throwing (0: none).  In responses.js 298-326 a thrown      *)
(* error is caught and false returned; thrown tells that this happened.     *)
validateAdminSession(sess, t, cookieHeader, failAt) ==
    LET ids == CookieSessionId(cookieHeader)
        sessionId == CHOOSE id \in ids : TRUE
        out(valid, s, log, thrown) ==
            [valid |-> valid, sessions |-> s, log |-> log, thrown |-> thrown]
    IN IF ids = {} THEN out(FALSE, sess, <<>>, FALSE)
       ELSE IF failAt = 1 THEN out(FALSE, sess, <<KvOp("throw", "")>>, TRUE)
       ELSE IF sessionId \notin DOMAIN sess \/ ~sess[sessionId].value.loggedIn
       THEN out(FALSE, sess, <<KvOp("get", "session")>>, FALSE)
       ELSE IF t - sess[sessionId].value.timestamp > SESSION_MAX_AGE_MS
       THEN IF failAt = 2
            THEN out(FALSE, sess, <<KvOp("get", "session"), KvOp("throw", "")>>, TRUE)
            ELSE out(FALSE, RemoveKey(sess, sessionId),
                     <<KvOp("get", "session"), KvOp("delete", "session")>>, FALSE)
       ELSE out(TRUE, sess, <<KvOp("get", "session")>>, FALSE)

\* lines 472-494, the copy the export handler calls: the same steps without
\* the try/catch, so that thrown is an error that reaches the caller
validateAdminSessionExport(sess, t, cookieHeader, failAt) ==
    validateAdminSession(sess, t, cookieHeader, failAt)

\* the KV operations a handler performed, the throw marker left out
KvCalls(log) == SelectSeq(log, LAMBDA o : o.op # "throw")

\* the characters with the codes 32..126, in the order of their codes
Printable ==
    <<" ", "!", DQUOTE, "#", "$", "%", "&", "'", "(", ")", "*", "+", ",", "-", ".",
      "/", "0", "1", "2", "3", "4", "5", "6", "7", "8", "9", ":", ";", "<", "=",
      ">", "?", "@", "A", "B", "C", "D", "E", "F", "G", "H", "I", "J", "K", "L",
      "M", "N", "O", "P", "Q", "R", "S", "T", "U", "V", "W", "X", "Y", "Z", "[",
      "backslash", "]", "^", "_", BACKTICK, "a", "b", "c", "d", "e", "f", "g", "h",
      "i", "j", "k", "l", "m", "n", "o", "p", "q", "r", "s", "t", "u", "v", "w",
      "x", "y", "z", "{", "|", "}", "~">>

\* c.charCodeAt(0)
charCodeAt(c) == 31 + CHOOSE i \in 1..Len(Printable) : Printable[i] = c

\* half of a 32-bit word: 2^16
Half == 256 * 256

(* hashPassword, lines 43-53.  A 32-bit word is held as <<high, low>>, its  *)
(* two 16-bit halves.  One turn of the loop, hash = ((hash << 5) - hash) +  *)
(* char cut to 32 bits, multiplies the word by 31 and adds the code.        *)
HashStep(hash, char) ==
    LET low == 31 * hash[2] + char
        high == 31 * hash[1] + low \div Half
    IN <<high % Half, low % Half>>

RECURSIVE HashLoop(_, _, _)
HashLoop(password, i, hash) ==
    IF i > Len(password) THEN hash
    ELSE HashLoop(password, i + 1, HashStep(hash, charCodeAt(password[i])))

\* Math.abs of the signed reading of the word; toString(36) tells these apart
AbsWord(hash) ==
    IF hash[1] < Half \div 2 THEN hash
    ELSE IF hash[2] = 0 THEN <<(Half - hash[1]) % Half, 0>>
    ELSE <<Half - 1 - hash[1], Half - hash[2]>>

hashPassword(password) == AbsWord(HashLoop(password, 1, <<0, 0>>))

\* 'admin123', the password when env.ADMIN_PASSWORD is not set
DefaultPassword == <<"a", "d", "m", "i", "n", "1", "2", "3">>

(* A counter of stats:security as JSON keeps it: missing (the property is   *)
(* not there), null (NaN was stringified) or a number.                      *)
Missing == [k |-> "missing", v |-> 0]

Null == [k |-> "null", v |-> 0]

Num(n) == [k |-> "num", v |-> n]

\* counter++ followed by JSON.stringify: undefined gives NaN, stored as null;
\* null counts as 0
Increment(c) ==
    IF c.k = "missing" THEN Null ELSE IF c.k = "null" THEN Num(1) ELSE Num(c.v + 1)

(* logFailedAttempt, lines 269-298, KV call number failAt of it throwing.   *)
(* The try/catch swallows the error; the calls after it are skipped.        *)
logFailedAttempt(sl, ip, t, failAt) ==
    LET logs1 == PutKey(sl.logs, <<"failed_login", t>>,
                        [type |-> "failed_login", ip |-> ip, timestamp |-> t])
        securityStats == GetOr(sl.security,
                               [successfulLogins |-> Missing, lastSuccessful |-> {},
                                failedAttempts |-> Num(0), lastFailed |-> {}])
        stats1 == [securityStats EXCEPT
                     !.failedAttempts = Increment(securityStats.failedAttempts),
                     !.lastFailed = {t}]
        calls == <<KvOp("put", "log"), KvOp("get", "stats:security"),
                   KvOp("put", "stats:security")>>
    IN IF failAt \in 1..3
       THEN [seclog |-> IF failAt = 1 THEN sl ELSE [sl EXCEPT !.logs = logs1],
             log |-> SubSeq(calls, 1, failAt - 1), attempted |-> failAt]
       ELSE [seclog |-> [logs |-> logs1, security |-> {stats1}],
             log |-> calls, attempted |-> 3]

\* logSuccessfulLogin, lines 301-329
logSuccessfulLogin(sl, ip, t, failAt) ==
    LET logs1 == PutKey(sl.logs, <<"success_login", t>>,
                        [type |-> "successful_login", ip |-> ip, timestamp |-> t])
        securityStats == GetOr(sl.security,
                               [successfulLogins |-> Num(0), lastSuccessful |-> {},
                                failedAttempts |-> Num(0), lastFailed |-> {}])
        stats1 == [securityStats EXCEPT
                     !.successfulLogins = Increment(securityStats.successfulLogins),
                     !.lastSuccessful = {t}]
        calls == <<KvOp("put", "log"), KvOp("get", "stats:security"),
                   KvOp("put", "stats:security")>>
    IN IF failAt \in 1..3
       THEN [seclog |-> IF failAt = 1 THEN sl ELSE [sl EXCEPT !.logs = logs1],
             log |-> SubSeq(calls, 1, failAt - 1), attempted |-> failAt]
       ELSE [seclog |-> [logs |-> logs1, security |-> {stats1}],
             log |-> calls, attempted |-> 3]

\* the answer of an admin-side handler; session is the Set-Cookie id or the
\* session reported, {} when there is none
AdminResponse(status, error, loggedIn, session) ==
    [status |-> status, error |-> error, loggedIn |-> loggedIn, session |-> session]

(* onRequestPost of the login handler, lines 55-196.  A body is of kind     *)
(* "malformed", "null" or "object", the latter with password <<>> when the  *)
(* property is absent or empty.  envPassword is env.ADMIN_PASSWORD, <<>>    *)
(* when it is not set.                                                      *)
loginOnRequestPost(attempts, sess, sl, t, cf, xff, ua, body, envPassword, random, failAt) ==
    LET ADMIN_PASSWORD == IF envPassword # <<>> THEN envPassword ELSE DefaultPassword
        ip == clientIP(cf, xff)
        limit == checkLoginAttempts(attempts[ip], t)
        attempts1 == [attempts EXCEPT ![ip] = limit.history]
        out(a, s, l, r, log) ==
            [loginAttempts |-> a, sessions |-> s, seclog |-> l, resp |-> r,
             log |-> log]
        failed == logFailedAttempt(sl, ip, t, failAt)
        sessionId == generateSessionId(t, random)
        sessionData == [loggedIn |-> TRUE, timestamp |-> t, ip |-> ip,
                        userAgent |-> IF ua # "" THEN ua ELSE "unknown",
                        lastActivity |-> {}]
        succeeded == logSuccessfulLogin(sl, ip, t, IF failAt > 1 THEN failAt - 1 ELSE 0)
    IN IF ~limit.ok
       THEN out(attempts1, sess, sl,
                AdminResponse(429, "Too many login attempts. Please try again later.",
                              FALSE, {}), <<>>)
       ELSE IF body.kind = "malformed"
       THEN out(attempts1, sess, sl,
                AdminResponse(400, "Invalid JSON data", FALSE, {}), <<>>)
       ELSE IF body.kind = "null"
       \* loginData.password throws a TypeError, caught at line 178
       THEN out(attempts1, sess, sl,
                AdminResponse(500, "Internal server error", FALSE, {}),
                <<KvOp("throw", "")>>)
       ELSE IF body.password = <<>>
       THEN out(attempts1, sess, sl,
                AdminResponse(400, "Password is required", FALSE, {}), <<>>)
       ELSE IF hashPassword(body.password) # hashPassword(ADMIN_PASSWORD)
       THEN out(attempts1, sess, failed.seclog,
                AdminResponse(401, "Invalid password", FALSE, {}), failed.log)
       ELSE IF failAt = 1
       THEN out(attempts1, sess, sl,
                AdminResponse(500, "Internal server error", FALSE, {}),
                <<KvOp("throw", "")>>)
       \* delete loginAttempts[clientIP]: the next check starts from no history
       ELSE out([attempts EXCEPT ![ip] = <<>>],
                PutSession(sess, sessionId, sessionData, t), succeeded.seclog,
                AdminResponse(200, "", TRUE, {sessionId}),
                <<KvOp("put", "session")>> \o succeeded.log)

\* a session check whose refresh restarts the age of the session
sessionOnRequestGetSliding(sess, t, cookieHeader, failAt) ==
    LET ids == CookieSessionId(cookieHeader)
        sessionId == CHOOSE id \in ids : TRUE
        sessionData == sess[sessionId].value
        out(s, r, log) == [sessions |-> s, resp |-> r, log |-> log]
        notLoggedIn == AdminResponse(200, "", FALSE, {})
    IN IF ids = {} \/ sessionId \notin DOMAIN sess THEN out(sess, notLoggedIn, <<>>)
       ELSE IF t - sessionData.timestamp < SESSION_MAX_AGE_MS
       THEN out(PutSession(sess, sessionId,
                           [sessionData EXCEPT !.timestamp = t, !.lastActivity = {t}],
                           t),
                AdminResponse(200, "", TRUE,
                              {[timestamp |-> t, ip |-> sessionData.ip]}),
                <<KvOp("get", "session"), KvOp("put", "session")>>)
       ELSE out(RemoveKey(sess, sessionId), notLoggedIn,
                <<KvOp("get", "session"), KvOp("delete", "session")>>)

\* a session check that writes the session back without its user agent
sessionOnRequestGetDropsAgent(sess, t, cookieHeader, failAt) ==
    LET ids == CookieSessionId(cookieHeader)
        sessionId == CHOOSE id \in ids : TRUE
        sessionData == sess[sessionId].value
        out(s, r, log) == [sessions |-> s, resp |-> r, log |-> log]
        notLoggedIn == AdminResponse(200, "", FALSE, {})
        caught == AdminResponse(200, "Session check failed", FALSE, {})
    IN IF ids = {} THEN out(sess, notLoggedIn, <<>>)
       ELSE IF failAt = 1 THEN out(sess, caught, <<KvOp("throw", "")>>)
       ELSE IF sessionId \notin DOMAIN sess \/ ~sessionData.loggedIn
       THEN out(sess, notLoggedIn, <<KvOp("get", "session")>>)
       ELSE IF failAt = 2
       THEN out(sess, caught, <<KvOp("get", "session"), KvOp("throw", "")>>)
       ELSE IF t - sessionData.timestamp < SESSION_MAX_AGE_MS
       THEN out(PutSession(sess, sessionId,
                           [sessionData EXCEPT !.lastActivity = {t},
                                               !.userAgent = "unknown"], t),
                AdminResponse(200, "", TRUE,
                              {[timestamp |-> sessionData.timestamp,
                                ip |-> sessionData.ip]}),
                <<KvOp("get", "session"), KvOp("put", "session")>>)
       ELSE out(RemoveKey(sess, sessionId), notLoggedIn,
                <<KvOp("get", "session"), KvOp("delete", "session")>>)

(* onRequestGet of the login handler, lines 198-266: the session check.     *)
(* A session younger than 24 hours is reported and written back with        *)
(* lastActivity set and a new expirationTtl; an older one is deleted.       *)
sessionOnRequestGet(sess, t, cookieHeader, failAt) ==
    LET ids == CookieSessionId(cookieHeader)
        sessionId == CHOOSE id \in ids : TRUE
        sessionData == sess[sessionId].value
        out(s, r, log) == [sessions |-> s, resp |-> r, log |-> log]
        notLoggedIn == AdminResponse(200, "", FALSE, {})
        caught == AdminResponse(200, "Session check failed", FALSE, {})
    IN IF ids = {} THEN out(sess, notLoggedIn, <<>>)
       ELSE IF failAt = 1 THEN out(sess, caught, <<KvOp("throw", "")>>)
       ELSE IF sessionId \notin DOMAIN sess \/ ~sessionData.loggedIn
       THEN out(sess, notLoggedIn, <<KvOp("get", "session")>>)
       ELSE IF failAt = 2
       THEN out(sess, caught, <<KvOp("get", "session"), KvOp("throw", "")>>)
       ELSE IF t - sessionData.timestamp < SESSION_MAX_AGE_MS
       THEN out(PutSession(sess, sessionId,
                           [sessionData EXCEPT !.lastActivity = {t}], t),
                AdminResponse(200, "", TRUE,
                              {[timestamp |-> sessionData.timestamp,
                                ip |-> sessionData.ip]}),
                <<KvOp("get", "session"), KvOp("put", "session")>>)
       ELSE out(RemoveKey(sess, sessionId), notLoggedIn,
                <<KvOp("get", "session"), KvOp("delete", "session")>>)

\* onRequestDelete of the login handler, lines 332-384: logout
onRequestDelete(sess, cookieHeader, failAt) ==
    LET ids == CookieSessionId(cookieHeader)
        sessionId == CHOOSE id \in ids : TRUE
        out(s, r, log) == [sessions |-> s, resp |-> r, log |-> log]
    IN IF ids = {}
       THEN out(sess, AdminResponse(200, "", FALSE, {}), <<>>)
       ELSE IF failAt = 1
       THEN out(sess, AdminResponse(500, "Logout failed", FALSE, {}),
                <<KvOp("throw", "")>>)
       ELSE out(RemoveKey(sess, sessionId), AdminResponse(200, "", FALSE, {}),
                <<KvOp("delete", "session")>>)

----------------------------------------------------------------------------
(* The query handler, onRequestGet of responses.js *)

\* CONFIG.CACHE_TTL, in seconds
CACHE_TTL == 5

\* c.toLowerCase() for one character
LowerChar(c) ==
    IF charCodeAt(c) \in charCodeAt("A")..charCodeAt("Z")
    THEN Printable[charCodeAt(c) + 32 - 31] ELSE c

toLowerCase(s) == [i \in 1..Len(s) |-> LowerChar(s[i])]

\* hay.includes(needle)
includes(hay, needle) ==
    \E k \in 0..(Len(hay) - Len(needle)) :
        \A i \in 1..Len(needle) : hay[k + i] = needle[i]

\* a < b on strings: the order of the character codes, a prefix first
StringLess(a, b) ==
    \E k \in 1..Len(b) :
        /\ \A i \in 1..(k - 1) : i <= Len(a) /\ a[i] = b[i]
        /\ Len(a) >= k - 1
        /\ (Len(a) = k - 1 \/ charCodeAt(a[k]) < charCodeAt(b[k]))

\* a < b on the values of two Date objects, false when either is NaN
DateLess(a, b) == a # NaN /\ b # NaN /\ Before(a, b)

\* parseInt of a string of digits
RECURSIVE parseIntDigits(_, _, _)
parseIntDigits(s, i, acc) ==
    IF i > Len(s) THEN acc ELSE parseIntDigits(s, i + 1, acc * 10 + parseInt(s[i]))

\* parseInt of a string of digits with or without a minus sign before them
parseIntSigned(s) ==
    IF Len(s) > 0 /\ s[1] = "-" THEN 0 - parseIntDigits(s, 2, 0)
    ELSE parseIntDigits(s, 1, 0)

(* A query parameter is {} when searchParams.get gives null and {string}    *)
(* otherwise.  page and limit are strings of digits, with or without a      *)
(* minus sign before them.                                                  *)

\* the value a parameter holds
Val(param) == CHOOSE v \in param : TRUE

\* if (param), for null or a string
Truthy(param) == param # {} /\ Val(param) # <<>>

\* lines 138-150: page, limit, sortBy, sortOrder and filters; these five make
\* the cache key of line 156
Normalize(params) ==
    [page |-> IF Truthy(params.page) THEN parseIntSigned(Val(params.page)) ELSE 1,
     limit |-> Min(IF Truthy(params.limit) THEN parseIntSigned(Val(params.limit))
                   ELSE 50, LIMIT_CAP),
     sortBy |-> IF Truthy(params.sortBy) THEN Val(params.sortBy)
                ELSE <<"t", "i", "m", "e", "s", "t", "a", "m", "p">>,
     sortOrder |-> IF Truthy(params.sortOrder) THEN Val(params.sortOrder)
                   ELSE <<"d", "e", "s", "c">>,
     filters |-> [search |-> params.search, startDate |-> params.startDate,
                  endDate |-> params.endDate, mobile |-> params.mobile,
                  aadhar |-> params.aadhar]]

\* a test whose endDate is itself outside the range
PassesFiltersEndExclusive(response, filters) ==
    LET searchable == toLowerCase(response.name \o <<" ">> \o response.father
                                  \o <<" ">> \o response.mobile \o <<" ">>
                                  \o response.aadhar \o <<" ">> \o response.dob)
        responseDate == Instant(response.timestamp)
    IN /\ Truthy(filters.search) =>
              includes(searchable, toLowerCase(Val(filters.search)))
       /\ Truthy(filters.startDate) =>
              ~DateLess(responseDate, ParseDate(Val(filters.startDate)))
       /\ Truthy(filters.endDate) =>
              (ParseDate(Val(filters.endDate)) = NaN
               \/ Before(responseDate, ParseDate(Val(filters.endDate))))
       /\ Truthy(filters.mobile) =>
              includes(response.mobile, StripNonDigits(Val(filters.mobile)))
       /\ Truthy(filters.aadhar) =>
              includes(response.aadhar, StripNonDigits(Val(filters.aadhar)))

\* lines 28-77, the test of one response
PassesFilters(response, filters) ==
    LET searchable == toLowerCase(response.name \o <<" ">> \o response.father
                                  \o <<" ">> \o response.mobile \o <<" ">>
                                  \o response.aadhar \o <<" ">> \o response.dob)
        responseDate == Instant(response.timestamp)
    IN /\ Truthy(filters.search) =>
              includes(searchable, toLowerCase(Val(filters.search)))
       /\ Truthy(filters.startDate) =>
              ~DateLess(responseDate, ParseDate(Val(filters.startDate)))
       /\ Truthy(filters.endDate) =>
              ~DateLess(ParseDate(Val(filters.endDate)), responseDate)
       /\ Truthy(filters.mobile) =>
              includes(response.mobile, StripNonDigits(Val(filters.mobile)))
       /\ Truthy(filters.aadhar) =>
              includes(response.aadhar, StripNonDigits(Val(filters.aadhar)))

\* a filter whose search tells upper case from lower case
filterResponsesCaseSensitive(responses, filters) ==
    SelectSeq(responses,
              LAMBDA r : /\ PassesFilters(r, filters)
                         /\ Truthy(filters.search) =>
                                includes(r.name \o <<" ">> \o r.father \o <<" ">>
                                         \o r.mobile \o <<" ">> \o r.aadhar
                                         \o <<" ">> \o r.dob,
                                         toLowerCase(Val(filters.search))))

filterResponses(responses, filters) ==
    SelectSeq(responses, LAMBDA r : PassesFilters(r, filters))

\* aValue < bValue for the sort key named
KeyLess(a, b, sortBy) ==
    IF sortBy = <<"n", "a", "m", "e">>
    THEN StringLess(toLowerCase(a.name), toLowerCase(b.name))
    ELSE IF sortBy = <<"d", "o", "b">>
    THEN DateLess(ParseDate(a.dob), ParseDate(b.dob))
    ELSE IF sortBy = <<"m", "o", "b", "i", "l", "e">>
    THEN StringLess(a.mobile, b.mobile)
    ELSE a.timestamp < b.timestamp

\* the orders of the positions 1..n
Orders(n) == {p \in [1..n -> 1..n] : \A i, j \in 1..n : i # j => p[i] # p[j]}

\* a sort that takes every sortOrder for asc
sortResponsesAscending(responses, sortBy, sortOrder) ==
    LET n == Len(responses)
        asc == TRUE
        ahead(a, b) == IF asc THEN KeyLess(a, b, sortBy) ELSE KeyLess(b, a, sortBy)
    IN { [i \in 1..n |-> responses[p[i]]] :
           p \in { q \in Orders(n) :
                     \A i, j \in 1..n :
                         i < j => ~ahead(responses[q[j]], responses[q[i]]) } }

(* sortResponses, lines 80-110.  The comparator never answers 0: of two     *)
(* responses with equal keys it puts either first, as the engine happens to *)
(* ask.  The results are the orders in which no response stands before one  *)
(* the comparator places ahead of it.                                       *)
sortResponses(responses, sortBy, sortOrder) ==
    LET n == Len(responses)
        asc == sortOrder = <<"a", "s", "c">>
        ahead(a, b) == IF asc THEN KeyLess(a, b, sortBy) ELSE KeyLess(b, a, sortBy)
    IN { [i \in 1..n |-> responses[p[i]]] :
           p \in { q \in Orders(n) :
                     \A i, j \in 1..n :
                         i < j => ~ahead(responses[q[j]], responses[q[i]]) } }

\* the Response of the query handler: payload is {} or {body}
QueryResponse(status, xcache, payload) ==
    [status |-> status, xcache |-> xcache, payload |-> payload]

\* lines 179-194
emptyResponse(limit) ==
    [success |-> TRUE, data |-> <<>>,
     pagination |-> [page |-> 1, limit |-> limit, totalItems |-> 0, totalPages |-> 0,
                     hasNextPage |-> FALSE, hasPrevPage |-> FALSE],
     stats |-> [total |-> 0, today |-> 0], filters |-> {}, sort |-> {}]

\* a cache test that takes an entry of any age
CacheHitAnyAge(cached, t) == cached # {}

\* line 159: cached && (Date.now() - cached.timestamp) < CONFIG.CACHE_TTL * 1000
CacheHit(cached, t) == cached # {} /\ (t - Val(cached).timestamp) < CACHE_TTL * 1000

\* a query that a failing record read fails with 500
onRequestGetReadThrows(kvs, sess, cch, t, public, cookieHeader, params, failAt) ==
    LET auth == IF public
                THEN [valid |-> TRUE, sessions |-> sess, log |-> <<>>, thrown |-> FALSE]
                ELSE validateAdminSession(sess, t, cookieHeader, failAt)
        \* the number of the failing call among those after the session check
        rel == IF failAt > Len(auth.log) THEN failAt - Len(auth.log) ELSE 0
        q == Normalize(params)
        cached == IF q \in DOMAIN cch THEN {cch[q]} ELSE {}
        hit == CacheHit(cached, t)
        responsesList == GetOr(kvs.list, <<>>)
        n == Len(responsesList)
        \* kv.get(...).catch(() => null), the nulls filtered out
        fetched == SelectSeq([i \in 1..n |-> i],
                             LAMBDA i : /\ rel # 2 + i
                                        /\ responsesList[i] \in DOMAIN kvs.responses)
        responses == [i \in 1..Len(fetched) |-> kvs.responses[responsesList[fetched[i]]]]
        filtered == filterResponses(responses, q.filters)
        stats == GetOr(kvs.stats, [total |-> 0, today |-> 0])
        responseData(sorted) ==
            LET paginated == paginateArray(sorted, q.page, q.limit)
            IN [success |-> TRUE, data |-> paginated.items,
                pagination |-> paginated.pagination, stats |-> stats,
                filters |-> {q.filters},
                sort |-> {[by |-> q.sortBy, order |-> q.sortOrder]}]
        out(c, r, log) ==
            [sessions |-> auth.sessions, cache |-> c, resp |-> r, log |-> auth.log \o log]
        failed(log) == out(cch, QueryResponse(500, "", {}),
                           log \o <<KvOp("throw", "")>>)
        getCache == <<KvOp("get", "cache")>>
        getList == getCache \o <<KvOp("get", "responses:list")>>
        getAll == getList \o [i \in 1..n |-> KvOp("get", "response")]
        getStats == getAll \o <<KvOp("get", "stats")>>
        putCache == <<KvOp("put", "cache")>>
    IN IF ~auth.valid THEN {out(cch, QueryResponse(401, "", {}), <<>>)}
       ELSE IF rel = 1 THEN {failed(<<>>)}
       ELSE IF hit THEN {out(cch, QueryResponse(200, "HIT", {Val(cached).data}), getCache)}
       ELSE IF rel = 2 THEN {failed(getCache)}
       ELSE IF rel \in 3..(2 + n) THEN {failed(getList)}
       ELSE IF n = 0
       THEN IF rel = 3 \/ rel = 4 THEN {failed(getList)}
            ELSE {out(PutKey(cch, q, [data |-> emptyResponse(q.limit), timestamp |-> t]),
                      QueryResponse(200, "MISS", {emptyResponse(q.limit)}),
                      getList \o putCache)}
       ELSE IF rel = 3 + n THEN {failed(getAll)}
       ELSE IF rel = 4 + n THEN {failed(getStats)}
       ELSE IF rel = 5 + n THEN {failed(getStats)}
       ELSE {out(PutKey(cch, q, [data |-> responseData(sorted), timestamp |-> t]),
                 QueryResponse(200, "MISS", {responseData(sorted)}),
                 getStats \o putCache) :
               sorted \in sortResponses(filtered, q.sortBy, q.sortOrder)}

(* onRequestGet, lines 112-295, called at time t on the stored records kvs, *)
(* the session keys sess and the cache keys cch; public tells whether the   *)
(* URL has the parameter of that name.  KV call number failAt throws (0:    *)
(* none).  The handler's possible outcomes, one for each result of the sort.*)
onRequestGet(kvs, sess, cch, t, public, cookieHeader, params, failAt) ==
    LET auth == IF public
                THEN [valid |-> TRUE, sessions |-> sess, log |-> <<>>, thrown |-> FALSE]
                ELSE validateAdminSession(sess, t, cookieHeader, failAt)
        \* the number of the failing call among those after the session check
        rel == IF failAt > Len(auth.log) THEN failAt - Len(auth.log) ELSE 0
        q == Normalize(params)
        cached == IF q \in DOMAIN cch THEN {cch[q]} ELSE {}
        hit == CacheHit(cached, t)
        responsesList == GetOr(kvs.list, <<>>)
        n == Len(responsesList)
        \* kv.get(...).catch(() => null), the nulls filtered out
        fetched == SelectSeq([i \in 1..n |-> i],
                             LAMBDA i : /\ rel # 2 + i
                                        /\ responsesList[i] \in DOMAIN kvs.responses)
        responses == [i \in 1..Len(fetched) |-> kvs.responses[responsesList[fetched[i]]]]
        filtered == filterResponses(responses, q.filters)
        stats == GetOr(kvs.stats, [total |-> 0, today |-> 0])
        responseData(sorted) ==
            LET paginated == paginateArray(sorted, q.page, q.limit)
            IN [success |-> TRUE, data |-> paginated.items,
                pagination |-> paginated.pagination, stats |-> stats,
                filters |-> {q.filters},
                sort |-> {[by |-> q.sortBy, order |-> q.sortOrder]}]
        out(c, r, log) ==
            [sessions |-> auth.sessions, cache |-> c, resp |-> r, log |-> auth.log \o log]
        failed(log) == out(cch, QueryResponse(500, "", {}),
                           log \o <<KvOp("throw", "")>>)
        getCache == <<KvOp("get", "cache")>>
        getList == getCache \o <<KvOp("get", "responses:list")>>
        getAll == getList \o [i \in 1..n |-> KvOp("get", "response")]
        getStats == getAll \o <<KvOp("get", "stats")>>
        putCache == <<KvOp("put", "cache")>>
    IN IF ~auth.valid THEN {out(cch, QueryResponse(401, "", {}), <<>>)}
       ELSE IF rel = 1 THEN {failed(<<>>)}
       ELSE IF hit THEN {out(cch, QueryResponse(200, "HIT", {Val(cached).data}), getCache)}
       ELSE IF rel = 2 THEN {failed(getCache)}
       ELSE IF n = 0
       THEN IF rel = 3 \/ rel = 4 THEN {failed(getList)}
            ELSE {out(PutKey(cch, q, [data |-> emptyResponse(q.limit), timestamp |-> t]),
                      QueryResponse(200, "MISS", {emptyResponse(q.limit)}),
                      getList \o putCache)}
       ELSE IF rel = 3 + n THEN {failed(getAll)}
       ELSE IF rel = 4 + n THEN {failed(getStats)}
       ELSE IF rel = 5 + n THEN {failed(getStats)}
       ELSE {out(PutKey(cch, q, [data |-> responseData(sorted), timestamp |-> t]),
                 QueryResponse(200, "MISS", {responseData(sorted)}),
                 getStats \o putCache) :
               sorted \in sortResponses(filtered, q.sortBy, q.sortOrder)}

----------------------------------------------------------------------------
(* The export handler, the second onRequestGet (lines 342-432) *)

\* formatMobile, lines 450-456
formatMobile(mobile) ==
    LET cleaned == StripNonDigits(mobile)
    IN IF Len(cleaned) = MOBILE_LEN
       THEN SubSeq(cleaned, 1, 5) \o <<" ">> \o SubSeq(cleaned, 6, Len(cleaned))
       ELSE cleaned

\* formatAadhar, lines 458-464
formatAadhar(aadhar) ==
    LET cleaned == StripNonDigits(aadhar)
    IN IF Len(cleaned) = AADHAR_LEN
       THEN SubSeq(cleaned, 1, 4) \o <<" ">> \o SubSeq(cleaned, 5, 8) \o <<" ">>
            \o SubSeq(cleaned, 9, Len(cleaned))
       ELSE cleaned

\* convertToCSV, lines 434-448: the header line and one line for each
\* response, a line being the sequence of its cells
convertToCSV(responses) ==
    <<"Timestamp,Name,Date of Birth,Mobile No,Father Name,Aadhar No,IP Address">>
    \o [i \in 1..Len(responses) |->
          <<<<"hi-IN", responses[i].timestamp>>,
            <<DQUOTE>> \o responses[i].name \o <<DQUOTE>>,
            responses[i].dob,
            <<DQUOTE>> \o formatMobile(responses[i].mobile) \o <<DQUOTE>>,
            <<DQUOTE>> \o responses[i].father \o <<DQUOTE>>,
            <<DQUOTE>> \o formatAadhar(responses[i].aadhar) \o <<DQUOTE>>,
            IF responses[i].ip # "" THEN responses[i].ip ELSE "N/A">>]

\* line 380: the stable sort, newest first, responses of one instant keeping
\* their order
SortNewestFirst(responses) ==
    LET n == Len(responses)
        p == CHOOSE q \in Orders(n) :
                 \A i, j \in 1..n :
                     i < j => \/ responses[q[i]].timestamp > responses[q[j]].timestamp
                              \/ /\ responses[q[i]].timestamp = responses[q[j]].timestamp
                                 /\ q[i] < q[j]
    IN [i \in 1..n |-> responses[p[i]]]

\* the Response of the export handler: body is {} or {exportData}
ExportResponse(status, contentType, body) ==
    [status |-> status, contentType |-> contentType, body |-> body]

\* an export handler that does not look at the session
exportOnRequestGetOpen(kvs, sess, t, cookieHeader, format, failAt) ==
    LET responsesList == GetOr(kvs.list, <<>>)
        present == SelectSeq(responsesList, LAMBDA id : id \in DOMAIN kvs.responses)
        responses == SortNewestFirst([i \in 1..Len(present) |-> kvs.responses[present[i]]])
    IN [sessions |-> sess,
        resp |-> ExportResponse(200, "application/json", {responses}),
        log |-> <<KvOp("get", "responses:list")>>
                \o [i \in 1..Len(responsesList) |-> KvOp("get", "response")]]

(* The export, called at time t; format is the parameter of that name, {}   *)
(* when absent.  KV call number failAt throws (0: none), and the error      *)
(* reaches the catch block of line 418 from wherever it is thrown.          *)
exportOnRequestGet(kvs, sess, t, cookieHeader, format, failAt) ==
    LET auth == validateAdminSessionExport(sess, t, cookieHeader, failAt)
        rel == IF failAt > Len(auth.log) THEN failAt - Len(auth.log) ELSE 0
        fmt == toLowerCase(IF Truthy(format) THEN Val(format) ELSE <<"c", "s", "v">>)
        responsesList == GetOr(kvs.list, <<>>)
        n == Len(responsesList)
        present == SelectSeq(responsesList, LAMBDA id : id \in DOMAIN kvs.responses)
        responses == SortNewestFirst([i \in 1..Len(present) |-> kvs.responses[present[i]]])
        out(r, log) == [sessions |-> auth.sessions, resp |-> r, log |-> auth.log \o log]
        failed(log) == out(ExportResponse(500, "application/json", {}),
                           log \o <<KvOp("throw", "")>>)
        getList == <<KvOp("get", "responses:list")>>
        getAll == getList \o [i \in 1..n |-> KvOp("get", "response")]
    IN IF auth.thrown THEN out(ExportResponse(500, "application/json", {}), <<>>)
       ELSE IF ~auth.valid THEN out(ExportResponse(401, "application/json", {}), <<>>)
       ELSE IF rel = 1 THEN failed(<<>>)
       ELSE IF rel \in 2..(1 + n) THEN failed(SubSeq(getAll, 1, rel - 1))
       ELSE IF fmt = <<"c", "s", "v">>
       THEN out(ExportResponse(200, "text/csv", {convertToCSV(responses)}), getAll)
       ELSE IF fmt = <<"j", "s", "o", "n">>
       THEN out(ExportResponse(200, "application/json", {responses}), getAll)
       ELSE IF fmt = <<"e", "x", "c", "e", "l">>
       THEN out(ExportResponse(
                    200,
                    "application/vnd.openxmlformats-officedocument.spreadsheetml.sheet",
                    {convertToCSV(responses)}), getAll)
       \* throw new Error('Unsupported format')
       ELSE failed(getAll)

----------------------------------------------------------------------------
(* Submissions and queries on one store, the clock on the scale of the cache *)

\* half the lifetime of a cache entry, in ms
CacheTickMs == CACHE_TTL * 500

\* the clock of the query runs advances at most MaxCacheTicks times
MaxCacheTicks == 2

\* no query parameter given
NoParams ==
    [page |-> {}, limit |-> {}, sortBy |-> {}, sortOrder |-> {}, search |-> {},
     startDate |-> {}, endDate |-> {}, mobile |-> {}, aadhar |-> {}]

\* ?search=<text>
SearchParams(text) == [NoParams EXCEPT !.search = {text}]

\* ?search=<text>&page=1&sortOrder=desc, the defaults spelled out
SearchParamsInFull(text) ==
    [NoParams EXCEPT !.search = {text}, !.page = {<<"1">>},
                     !.sortOrder = {<<"d", "e", "s", "c">>}]

\* the Cookie header that carries the session id
CookieOf(id) == {[name |-> "admin_session", value |-> id]}

\* the password the login handler accepts when env.ADMIN_PASSWORD is not set
RightPassword == [kind |-> "object", password |-> DefaultPassword]

\* the clock on the scale of the cache
TickCache ==
    /\ now < MaxCacheTicks * CacheTickMs
    /\ now' = now + CacheTickMs
    /\ UNCHANGED adminVars
    /\ UNCHANGED <<rateLimitStore, loginAttempts, kv, req, resp, nreq, rlLog,
                   vfn, vin, vdone, vres, vmut>>

\* POST /api/admin/login
Login(cf, xff, ua, body, envPassword, random, failAt) ==
    /\ \E r \in {loginOnRequestPost(loginAttempts, sessions, seclog, now, cf, xff, ua,
                                     body, envPassword, random, failAt)} :
          /\ loginAttempts' = r.loginAttempts
          /\ sessions' = r.sessions
          /\ seclog' = r.seclog
          /\ qresp' = r.resp
          /\ kvlog' = r.log
          \* a run that has the login handler under test keeps the answers
          /\ rlLog' = IF vfn = "loginOnRequestPost"
                       THEN Append(rlLog, [t |-> now, ok |-> r.resp.status # 429,
                                           status |-> r.resp.status])
                       ELSE rlLog
    /\ qreq' = [op |-> "login", public |-> FALSE, cookieHeader |-> {},
                params |-> NoParams, failAt |-> failAt, t |-> now]
    /\ UNCHANGED <<now, rateLimitStore, kv, req, resp, nreq,
                   vfn, vin, vdone, vres, vmut, cache, procs>>

\* GET /api/responses
QueryRequest(public, cookieHeader, params, failAt) ==
    /\ \E r \in onRequestGet(kv, sessions, cache, now, public, cookieHeader, params,
                             failAt) :
          /\ sessions' = r.sessions
          /\ cache' = r.cache
          /\ qresp' = r.resp
          /\ kvlog' = r.log
    /\ qreq' = [op |-> "query", public |-> public, cookieHeader |-> cookieHeader,
                params |-> params, failAt |-> failAt, t |-> now]
    /\ UNCHANGED <<now, rateLimitStore, loginAttempts, kv, req, resp, nreq, rlLog,
                   vfn, vin, vdone, vres, vmut, seclog, procs>>

\* the one session id a login of this run can produce
TheSession == generateSessionId(0, 1)

InitQuery ==
    /\ now = 0
    /\ rateLimitStore = [ip \in Identities |-> <<>>]
    /\ loginAttempts = [ip \in Identities |-> <<>>]
    /\ kv = EmptyKV
    /\ req = NoRequest
    /\ resp = NoResponse
    /\ nreq = 0
    /\ rlLog = <<>>
    /\ vfn = "onRequestPost"
    /\ vin = <<>>
    /\ vdone = FALSE
    /\ vres = FALSE
    /\ vmut = FALSE
    /\ InitAdmin

\* the first KV calls of a handler, each of which may be the one that throws
MaxFail == 2

NextQuery ==
    \/ TickCache
    \/ \E random \in 1..MaxRandom :
          SubmitRequestThrows("ipA", "", "Mozilla", GoodBody, random, 0)
    \/ /\ now = 0
       /\ sessions = <<>>
       /\ Login("ipA", "", "Mozilla", RightPassword, <<>>, 1, 0)
    \* the first KV call of the handler fails, or none
    \/ \E params \in {SearchParams(GoodName), SearchParamsInFull(GoodName)},
          failAt \in {0, 1} :
          \/ QueryRequest(TRUE, {}, params, failAt)
          \/ QueryRequest(FALSE, CookieOf(TheSession), params, failAt)

SpecQuery == InitQuery /\ [][NextQuery]_vars

\* the step is a query being answered
QueryStep == qreq'.op = "query" /\ <<qreq', qresp'>> # <<qreq, qresp>>

\* the KV reads a handler performed
KvReads(log) == SelectSeq(log, LAMBDA o : o.op = "get")

(* C17: two queries with identical normalized parameters, both answered     *)
(* 200 and issued less than CACHE_TTL seconds apart, return the same        *)
(* payload, whatever was submitted between them, and the second one reads   *)
(* nothing from the store but the cache key.                                *)
C17_RepeatWithinTtl ==
    [][(/\ QueryStep
        /\ qreq.op = "query"
        /\ qresp.status = 200
        /\ qresp'.status = 200
        /\ Normalize(qreq'.params) = Normalize(qreq.params)
        /\ qreq'.t - qreq.t < CACHE_TTL * 1000)
       => /\ qresp'.payload = qresp.payload
          /\ KvReads(kvlog') = <<KvOp("get", "cache")>>]_vars

(* C17, as the code has it: a query answered 200 whose normalized           *)
(* parameters have a cache entry stored less than CACHE_TTL seconds before  *)
(* returns the payload of that entry, whatever was submitted since, leaves  *)
(* the cache as it is, and reads the cache key and, unless the request is   *)
(* public, the session key, and no other key; a query answered 200 that     *)
(* finds no such entry computes its payload from the store and caches it    *)
(* with the current time.  The lifetime runs from the moment the entry was  *)
(* stored, not from the query before.                                       *)
C17_FreshEntryServed ==
    [][(QueryStep /\ qresp'.status = 200)
       => LET q == Normalize(qreq'.params)
              fresh == /\ q \in DOMAIN cache
                       /\ now - cache[q].timestamp < CACHE_TTL * 1000
              sessionRead == IF qreq'.public THEN <<>>
                             ELSE <<KvOp("get", "session")>>
          IN IF fresh
             THEN /\ qresp'.payload = {cache[q].data}
                  /\ KvCalls(kvlog') = sessionRead \o <<KvOp("get", "cache")>>
                  /\ cache' = cache
             ELSE /\ qresp'.xcache = "MISS"
                  /\ q \in DOMAIN cache'
                  /\ cache'[q] = [data |-> Val(qresp'.payload), timestamp |-> now]]_vars

\* a session-authorized query served from an entry cached before the record
\* now in the store was submitted
C17_Witness ==
    /\ qreq.op = "query"
    /\ ~qreq.public
    /\ qresp.status = 200
    /\ qresp.xcache = "HIT"
    /\ Val(qresp.payload).data = <<>>
    /\ kv.list # {}
    /\ now > cache[Normalize(qreq.params)].timestamp

\* how many of the responses have the id
Occurrences(id, responses) ==
    Cardinality({i \in 1..Len(responses) : responses[i].id = id})

\* how many times the Index lists the id
IndexEntries(id, kvs) ==
    Cardinality({i \in 1..Len(GetOr(kvs.list, <<>>)) : GetOr(kvs.list, <<>>)[i] = id})

(* The step is an authorized query, every KV operation succeeding, that     *)
(* searches for the name of the submission accepted just before it: the     *)
(* last handler that ran was the submit handler, at this very instant.      *)
QueryAfterSubmission ==
    /\ QueryStep
    /\ resp.status = 201
    /\ kvlog # <<>>
    /\ kvlog[1] = SubmitSites[1]
    /\ resp.data.timestamp = now
    /\ qreq'.failAt = 0
    /\ qresp'.status # 401
    /\ qreq'.params.search = {resp.data.name}

----------------------------------------------------------------------------
(* The admin side: login, session check, logout, query and export on one    *)
(* store, the clock on the scale of a session's life                        *)

\* half the life of a session, in ms
HalfDayMs == SESSION_MAX_AGE_MS \div 2

\* the clock of the session runs advances at most MaxSessionTicks times
MaxSessionTicks == 3

\* logins counted in stats:security in one run
MaxLogins == 1

WrongPassword == [kind |-> "object", password |-> <<"a", "b">>]

\* a counter of stats:security as a number
CounterValue(c) == IF c.k = "num" THEN c.v ELSE 0

\* the logins stats:security has counted
LoginsCounted(sl) ==
    IF sl.security = {} THEN 0
    ELSE CounterValue(Val(sl.security).successfulLogins)
         + CounterValue(Val(sl.security).failedAttempts)

\* the clock on the scale of a session
TickHalfDay ==
    /\ now < MaxSessionTicks * HalfDayMs
    /\ now' = now + HalfDayMs
    /\ UNCHANGED adminVars
    /\ UNCHANGED <<rateLimitStore, loginAttempts, kv, req, resp, nreq, rlLog,
                   vfn, vin, vdone, vres, vmut>>

\* the store drops a session key whose expirationTtl has run out
KvExpire(id) ==
    /\ id \in DOMAIN sessions
    /\ now >= sessions[id].expiresAt
    /\ sessions' = RemoveKey(sessions, id)
    /\ UNCHANGED <<now, rateLimitStore, loginAttempts, kv, req, resp, nreq, rlLog,
                   vfn, vin, vdone, vres, vmut, seclog, cache, qreq, qresp, kvlog,
                   procs>>

\* GET /api/admin/login: the session check
SessionCheck(cookieHeader, failAt) ==
    /\ \E r \in {sessionOnRequestGet(sessions, now, cookieHeader, failAt)} :
          /\ sessions' = r.sessions
          /\ qresp' = r.resp
          /\ kvlog' = r.log
    /\ qreq' = [op |-> "check", public |-> FALSE, cookieHeader |-> cookieHeader,
                params |-> NoParams, failAt |-> failAt, t |-> now]
    /\ UNCHANGED <<now, rateLimitStore, loginAttempts, kv, req, resp, nreq, rlLog,
                   vfn, vin, vdone, vres, vmut, seclog, cache, procs>>

\* DELETE /api/admin/login: logout
Logout(cookieHeader, failAt) ==
    /\ \E r \in {onRequestDelete(sessions, cookieHeader, failAt)} :
          /\ sessions' = r.sessions
          /\ qresp' = r.resp
          /\ kvlog' = r.log
    /\ qreq' = [op |-> "logout", public |-> FALSE, cookieHeader |-> cookieHeader,
                params |-> NoParams, failAt |-> failAt, t |-> now]
    /\ UNCHANGED <<now, rateLimitStore, loginAttempts, kv, req, resp, nreq, rlLog,
                   vfn, vin, vdone, vres, vmut, seclog, cache, procs>>

\* GET /api/export
ExportRequest(cookieHeader, format, failAt) ==
    /\ \E r \in {exportOnRequestGet(kv, sessions, now, cookieHeader, format, failAt)} :
          /\ sessions' = r.sessions
          /\ qresp' = r.resp
          /\ kvlog' = r.log
    /\ qreq' = [op |-> "export", public |-> FALSE, cookieHeader |-> cookieHeader,
                params |-> [NoParams EXCEPT !.search = format], failAt |-> failAt,
                t |-> now]
    /\ UNCHANGED <<now, rateLimitStore, loginAttempts, kv, req, resp, nreq, rlLog,
                   vfn, vin, vdone, vres, vmut, seclog, cache, procs>>

\* the store after one accepted submission
InitSession ==
    LET r == onRequestPost([ip \in Identities |-> <<>>], EmptyKV, 0, "ipA", "",
                           "Mozilla", GoodBody, 1)
    IN /\ now = 0
       /\ rateLimitStore = r.rateLimitStore
       /\ loginAttempts = [ip \in Identities |-> <<>>]
       /\ kv = r.kv
       /\ req = [ip |-> "ipA", ua |-> "Mozilla", body |-> GoodBody]
       /\ resp = r.resp
       /\ nreq = 1
       /\ rlLog = <<>>
       /\ vfn = "onRequestPost"
       /\ vin = <<>>
       /\ vdone = FALSE
       /\ vres = FALSE
       /\ vmut = FALSE
       /\ InitAdmin

\* the Cookie headers of a request: none, one naming a stored session, one
\* naming the session of the first login whether it is stored or not
CookieHeaders == {{}} \cup {CookieOf(id) : id \in DOMAIN sessions \cup {TheSession}}

NextSession ==
    \/ TickHalfDay
    \/ \E id \in DOMAIN sessions : KvExpire(id)
    \/ /\ LoginsCounted(seclog) < MaxLogins
       /\ \E body \in {RightPassword, WrongPassword}, failAt \in {0, 1} :
             Login("ipA", "", "Mozilla", body, <<>>, 1, failAt)
    \/ \E cookieHeader \in CookieHeaders, failAt \in {0, 1} :
          Logout(cookieHeader, failAt)
    \/ \E cookieHeader \in CookieHeaders, failAt \in 0..MaxFail :
          \/ SessionCheck(cookieHeader, failAt)
          \/ QueryRequest(FALSE, cookieHeader, NoParams, failAt)
          \/ \E format \in {{}, {<<"j", "s", "o", "n">>}} :
                ExportRequest(cookieHeader, format, failAt)
    \/ QueryRequest(TRUE, {}, NoParams, 0)

SpecSession == InitSession /\ [][NextSession]_vars

\* the step is an export being answered
ExportStep == qreq'.op = "export" /\ <<qreq', qresp'>> # <<qreq, qresp>>

\* the step is a session check being answered
CheckStep == qreq'.op = "check" /\ <<qreq', qresp'>> # <<qreq, qresp>>

\* the age of the stored session id, from the timestamp the login wrote
Age(id) == now - sessions[id].value.timestamp

(* the Cookie header names a stored session with loggedIn true that is not  *)
(* older than 24 hours                                                      *)
SessionUsable(cookieHeader) ==
    \E id \in CookieSessionId(cookieHeader) :
        /\ id \in DOMAIN sessions
        /\ sessions[id].value.loggedIn
        /\ Age(id) <= SESSION_MAX_AGE_MS

\* the handler touched no key but the session key
OnlySessionKey(log) == \A i \in 1..Len(log) : log[i].key \in {"session", ""}

(* C15: a query without the public parameter is answered 200 only if its   *)
(* cookie names a stored session with loggedIn true that is not expired;    *)
(* a query without such a session is answered 401, and no Index, record,    *)
(* stats or cache key is read or written for it.                           *)
C15_QueryNeedsSession ==
    [][(QueryStep /\ ~qreq'.public)
       => /\ qresp'.status = 200 => SessionUsable(qreq'.cookieHeader)
          /\ ~SessionUsable(qreq'.cookieHeader)
             => /\ qresp'.status = 401
                /\ OnlySessionKey(kvlog')
                /\ cache' = cache
                /\ kv' = kv]_vars

\* a query refused for a cookie that names no stored session, records and a
\* session of somebody else being in the store
C15_Witness ==
    /\ qreq.op = "query"
    /\ ~qreq.public
    /\ qreq.failAt = 0
    /\ qresp.status = 401
    /\ qreq.cookieHeader = CookieOf(TheSession)
    /\ TheSession \notin DOMAIN sessions
    /\ sessions # <<>>
    /\ kvlog = <<KvOp("get", "session")>>
    /\ kv.list # {}

C20_ExpiredNeverAuthorizes ==
    [][\A id \in DOMAIN sessions :
          /\ id \in DOMAIN sessions'
             => sessions'[id].value.timestamp = sessions[id].value.timestamp
          /\ (/\ qreq'.cookieHeader = CookieOf(id)
              /\ sessions[id].value.loggedIn
              /\ (QueryStep /\ ~qreq'.public) \/ ExportStep \/ CheckStep)
             => LET authorized == IF qreq'.op = "check" THEN qresp'.loggedIn
                                  ELSE qresp'.status = 200
                    limit == IF qreq'.op = "check" THEN SESSION_MAX_AGE_MS - 1
                             ELSE SESSION_MAX_AGE_MS
                IN /\ Age(id) > SESSION_MAX_AGE_MS
                      => /\ ~authorized
                         /\ ~Threw(kvlog') => id \notin DOMAIN sessions'
                   /\ qreq'.failAt = 0 => (authorized <=> Age(id) <= limit)]_vars

\* an export refused 36 hours after the login for a session that a session
\* check had kept in the store, and which the export deleted
C20_Witness ==
    /\ qreq.op = "export"
    /\ qreq.cookieHeader = CookieOf(TheSession)
    /\ qreq.t = now
    /\ now > SESSION_MAX_AGE_MS
    /\ qresp.status = 401
    /\ kvlog = <<KvOp("get", "session"), KvOp("delete", "session")>>
    /\ TheSession \notin DOMAIN sessions

----------------------------------------------------------------------------
(* The history a rate limiter keeps *)

\* the store of the limiter under test
HistoryOf(f, submitStore, loginStore) ==
    IF f = "checkLoginAttempts" THEN loginStore ELSE submitStore

(* C23: a call of a rate limiter first evicts the entries not newer than    *)
(* now - window; when maxRequests entries or more remain it denies and      *)
(* leaves exactly those, and otherwise it allows and appends now once.      *)
(* After the call the history of every identity holds at most maxRequests   *)
(* entries, all of them newer than now - window.                            *)
C23_DeniedNotRecorded ==
    [][Len(rlLog') = Len(rlLog) + 1
       => \A ip \in Identities :
             LET N == LimitOf(vfn)
                 W == WindowOf(vfn)
                 before == HistoryOf(vfn, rateLimitStore, loginAttempts)[ip]
                 after == HistoryOf(vfn, rateLimitStore', loginAttempts')[ip]
                 kept == SelectSeq(before, LAMBDA time : time > now - W)
                 ok == rlLog'[Len(rlLog')].ok
             IN /\ ip # "ipA" => after = before
                /\ ip = "ipA"
                   => /\ ok <=> Len(kept) < N
                      /\ after = IF ok THEN Append(kept, now) ELSE kept
                /\ Len(after) <= N
                /\ \A i \in 1..Len(after) : after[i] > now - W]_vars

\* a denied call that left the ten entries of the window as they were
C23_Witness ==
    /\ vfn = "checkRateLimit"
    /\ Len(rlLog) = MAX_REQUESTS + 1
    /\ ~rlLog[Len(rlLog)].ok
    /\ Len(rateLimitStore["ipA"]) = MAX_REQUESTS
    /\ \A i \in 1..MAX_REQUESTS : rateLimitStore["ipA"][i] = rlLog[i].t

----------------------------------------------------------------------------
(* Logins of one identity, the clock on the scale of the limiter's window *)

InitLogin ==
    /\ now = 0
    /\ rateLimitStore = [ip \in Identities |-> <<>>]
    /\ loginAttempts = [ip \in Identities |-> <<>>]
    /\ kv = EmptyKV
    /\ req = NoRequest
    /\ resp = NoResponse
    /\ nreq = 0
    /\ rlLog = <<>>
    /\ vfn = "loginOnRequestPost"
    /\ vin = <<>>
    /\ vdone = FALSE
    /\ vres = FALSE
    /\ vmut = FALSE
    /\ InitAdmin

\* login requests in one run
MaxLoginCalls == 7

NextLogin ==
    \/ Tick
    \/ /\ Len(rlLog) < MaxLoginCalls
       /\ \E body \in {RightPassword, WrongPassword} :
             Login("ipA", "", "Mozilla", body, <<>>, 1, 0)

SpecLogin == InitLogin /\ [][NextLogin]_vars

\* the step is a login being answered
LoginStep == Len(rlLog') = Len(rlLog) + 1 /\ vfn = "loginOnRequestPost"

\* the logins that passed the gate less than a window before now, among the
\* entries from position first on
PassedInWindow(first) ==
    Cardinality({k \in first..Len(rlLog) :
                    rlLog[k].ok /\ rlLog[k].t > now - LOGIN_WINDOW_MS})

\* the position after the last successful login, 1 when there is none
AfterLastSuccess ==
    LET S == {k \in 1..Len(rlLog) : rlLog[k].status = 200}
    IN IF S = {} THEN 1 ELSE (CHOOSE k \in S : \A j \in S : j <= k) + 1

(* C22: a login request passes the rate-limit gate only when fewer than 5   *)
(* login requests of the identity have passed it in the 15 minutes before,  *)
(* and is answered 429 otherwise: no window of 15 minutes has more than 5   *)
(* requests that pass.                                                      *)
C22_FivePerWindow ==
    [][LoginStep
       => (qresp'.status # 429 <=> PassedInWindow(1) < MAX_LOGIN_ATTEMPTS)]_vars

(* C22, as the code has it: the requests counted are those that passed the  *)
(* gate since the last successful login of the identity, which clears the   *)
(* history; a login request passes the gate exactly when fewer than 5 of    *)
(* those lie in the 15 minutes before it, and is answered 429 otherwise.    *)
C22_FiveSinceLastSuccess ==
    [][LoginStep
       => /\ qresp'.status # 429
             <=> PassedInWindow(AfterLastSuccess) < MAX_LOGIN_ATTEMPTS
          /\ loginAttempts'["ipA"] =
                IF qresp'.status = 200 THEN <<>>
                ELSE LET kept == SelectSeq(loginAttempts["ipA"],
                                           LAMBDA time : time > now - LOGIN_WINDOW_MS)
                     IN IF qresp'.status = 429 THEN kept ELSE Append(kept, now)]_vars

\* a sixth request of one window answered 429 after five wrong passwords,
\* no login having succeeded
C22_Witness ==
    /\ vfn = "loginOnRequestPost"
    /\ Len(rlLog) = MAX_LOGIN_ATTEMPTS + 1
    /\ \A k \in 1..MAX_LOGIN_ATTEMPTS : rlLog[k].status = 401
    /\ rlLog[Len(rlLog)].status = 429
    /\ rlLog[Len(rlLog)].t - rlLog[1].t < LOGIN_WINDOW_MS

----------------------------------------------------------------------------
(* Concurrent submissions, any of which may stop at a KV call *)

(* The KV call p is about to make throws, or the worker stops there: the    *)
(* call writes nothing, the catch block of line 301 throws in its turn and  *)
(* the request ends without a Response.                                     *)
Throw(p) ==
    /\ p \in 1..Len(procs)
    /\ procs[p].pc \in 1..Len(SubmitSites)
    \* the local variables are not used again
    /\ procs' = [procs EXCEPT ![p] =
                    [procs[p] EXCEPT !.pc = 0, !.status = 0,
                                     !.responsesList = Unread,
                                     !.recentResponses = Unread, !.stats = Unread,
                                     !.lastSubmission = Unread, !.today = Unread]]
    /\ UNCHANGED <<now, rateLimitStore, loginAttempts, kv, req, resp, nreq, rlLog,
                   vfn, vin, vdone, vres, vmut, sessions, seclog, cache, qreq, qresp,
                   kvlog>>

NextCrash ==
    \/ StartSubmission("ipA", "", "Mozilla", GoodBody, Len(procs) + 1)
    \/ \E p \in 1..MaxProcs :
          \/ PutRecord(p)
          \/ GetList(p)
          \/ PutList(p)
          \/ GetRecent(p)
          \/ PutRecent(p)
          \/ GetStats(p)
          \/ GetLastDate(p)
          \/ PutLastDate(p)
          \/ PutStats(p)
          \/ Throw(p)

SpecCrash == InitConcurrent /\ [][NextCrash]_vars

\* the submission p has returned 201
Returned201(p) == p \in 1..Len(procs) /\ procs[p].status = 201

(* C24: the write of the Index stores the list the submission read at its   *)
(* own read, with its id appended, whatever the Index holds at the moment   *)
(* of the write; an id another submission appended between that read and    *)
(* this write is lost, so that two submissions can both return 201 with     *)
(* both records stored and the Index holding one id.                        *)
C24_IndexWriteStoresOwnRead ==
    [][\A p \in 1..Len(procs) :
          (AtSite(p, "put", "responses:list") /\ procs'[p].pc = procs[p].pc + 1)
          => /\ kv'.list = procs[p].responsesList
             /\ Val(kv'.list)[Len(Val(kv'.list))] = Data(p).id
             /\ kv'.responses = kv.responses]_vars

\* two submissions answered 201, both records stored, one id in the Index
C24_Witness ==
    /\ Returned201(1)
    /\ Returned201(2)
    /\ Data(1).id # Data(2).id
    /\ {Data(1).id, Data(2).id} \subseteq DOMAIN kv.responses
    /\ Len(GetOr(kv.list, <<>>)) = 1

\* the ids the Index lists
IndexIds(kvs) == {GetOr(kvs.list, <<>>)[i] : i \in 1..Len(GetOr(kvs.list, <<>>))}

(* C25: in every reachable state, submissions interleaved at their KV calls *)
(* and stopping at any of them, every id the Index lists has its record     *)
(* stored under its key.                                                    *)
C25_IndexedHasRecord ==
    IndexIds(kv) \subseteq DOMAIN kv.responses

\* a record without an Index entry, left by a submission that stopped at the
\* write of the Index, beside one that is listed
C25_Witness ==
    /\ Len(procs) >= 2
    /\ \E p, q \in 1..Len(procs) :
          /\ procs[p].status = 0
          /\ procs[p].responseData # {}
          /\ Data(p).id \in DOMAIN kv.responses
          /\ Data(p).id \notin IndexIds(kv)
          /\ Returned201(q)
          /\ Data(q).id \in IndexIds(kv)

----------------------------------------------------------------------------
(* Concurrent submissions that draw the same random suffix in the same ms *)

\* submissions in flight in one run
MaxColliding == 2

NextCollide ==
    \/ /\ Len(procs) < MaxColliding
       /\ \E body \in {GoodBody, OtherGoodBody} :
             StartSubmission("ipA", "", "Mozilla", body, 1)
    \/ \E p \in 1..MaxProcs :
          \/ PutRecord(p)
          \/ GetList(p)
          \/ PutList(p)
          \/ GetRecent(p)
          \/ PutRecent(p)
          \/ GetStats(p)
          \/ GetLastDate(p)
          \/ PutLastDate(p)
          \/ PutStats(p)

SpecCollide == InitConcurrent /\ [][NextCollide]_vars

(* C26: a submission returns 201 after its writes of the record, the Index, *)
(* the recent list and the stats, in that order, and at that moment the     *)
(* record stored under the id it returns is its own: the sanitized fields   *)
(* of its request, its timestamp, its client IP and its user agent.         *)
C26_RecordAt201IsOwn ==
    [][\A p \in 1..Len(procs) :
          (procs[p].status # 201 /\ procs'[p].status = 201)
          => /\ AtSite(p, "put", "stats")
             /\ Data(p).id \in DOMAIN kv'.responses
             /\ kv'.responses[Data(p).id] = Data(p)]_vars

----------------------------------------------------------------------------
(* Submissions handled one after the other over several days *)

NextDays ==
    \/ TickHalfDay
    \/ \E body \in {GoodBody, OtherBody("malformed")}, random \in 1..MaxRandom :
          SubmitRequest("ipA", "", "Mozilla", body, random)

SpecDays == InitQuery /\ [][NextDays]_vars

\* the clock reading in a response id
IdTime(id) == id[2]

\* the Index entries whose submission was made on the date
MadeOn(date, kvs) ==
    Cardinality({i \in 1..Len(GetOr(kvs.list, <<>>)) :
                    IsoDate(IdTime(GetOr(kvs.list, <<>>)[i])) = date})

(* C27: submissions being handled one after the other and all their writes *)
(* succeeding, a submission answered 201 on a date other than the stored    *)
(* last submission date sets today to 1 and stores its date, one on the     *)
(* stored date adds 1 to today; after it, today is the number of accepted   *)
(* submissions made on the date of the latest one.                          *)
C27_TodayCountsTheDay ==
    [][(nreq' # nreq /\ resp'.status = 201)
       => LET date == IsoDate(now)
              before == GetOr(kv.stats, [total |-> 0, today |-> 0])
              after == Val(kv'.stats)
          IN /\ after.today = IF kv.last_submission_date = {date}
                              THEN before.today + 1 ELSE 1
             /\ kv'.last_submission_date = {date}
             /\ after.today = MadeOn(date, kv')]_vars

\* a submission of the second day after one of the first day: today is 1 again
C27_Witness ==
    /\ nreq = 2
    /\ resp.status = 201
    /\ Len(GetOr(kv.list, <<>>)) = 2
    /\ Val(kv.stats).today = 1
    /\ Val(kv.stats).total = 2
    /\ kv.last_submission_date = {IsoDate(now)}
    /\ MadeOn(IsoDate(0), kv) = 1
    /\ IsoDate(now) # IsoDate(0)

----------------------------------------------------------------------------
(* Submissions that arrive when the recent list is full or nearly full *)

\* the time between two of the earlier submissions, longer than the rate
\* limit window
RecentStepMs == 1000000

\* the submissions that fill the recent list
MaxEarlier == RECENT_MAX

\* steps of the clock after the earlier submissions
MaxRecentTicks == 2

\* the number of accepted submissions so far
Accepted == Len(GetOr(kv.list, <<>>))

\* POST /api/submit, one of the submissions that fill the recent list, each
\* made RecentStepMs after the one before
SubmitEarlier ==
    /\ vfn = "onRequestPost"
    /\ nreq = 0
    /\ Accepted < MaxEarlier
    /\ now = Accepted * RecentStepMs
    /\ \E r \in {onRequestPost(rateLimitStore, kv, now, "ipA", "", "Mozilla", GoodBody, 1)} :
          /\ rateLimitStore' = r.rateLimitStore
          /\ kv' = r.kv
          /\ resp' = r.resp
    /\ req' = [ip |-> "ipA", ua |-> "Mozilla", body |-> GoodBody]
    /\ UNCHANGED adminVars
    /\ UNCHANGED <<now, nreq, loginAttempts, rlLog, vfn, vin, vdone, vres, vmut>>

TickRecent ==
    /\ \/ now < Accepted * RecentStepMs
       \/ /\ Accepted >= MaxEarlier - 1
          /\ now < (MaxEarlier + MaxRecentTicks) * RecentStepMs
    /\ now' = now + RecentStepMs
    /\ UNCHANGED adminVars
    /\ UNCHANGED <<rateLimitStore, loginAttempts, kv, req, resp, nreq, rlLog,
                   vfn, vin, vdone, vres, vmut>>

NextRecent ==
    \/ SubmitEarlier
    \/ TickRecent
    \/ /\ Accepted >= MaxEarlier - 1
       /\ \E body \in {GoodBody, OtherGoodBody, OtherBody("malformed")},
             random \in 1..MaxRandom :
             SubmitRequest("ipA", "", "Mozilla", body, random)

SpecRecent == InitQuery /\ [][NextRecent]_vars

\* the summaries are in the order newest first
NewestFirst(recent) ==
    \A i, j \in 1..Len(recent) : i < j => recent[i].timestamp >= recent[j].timestamp

(* C28: submissions being handled one after the other and all their writes *)
(* succeeding, a submission answered 201 puts its summary first in the      *)
(* recent list and moves the others one place down; the list never holds    *)
(* more than 50 summaries and is in the order newest first; a summary added *)
(* to a list of 50 drops the last one, which is the oldest.                 *)
C28_RecentKeepsNewestFifty ==
    [][(kv' # kv /\ resp'.status = 201)
       => LET old == GetOr(kv.recent, <<>>)
              new == Val(kv'.recent)
          IN /\ Len(new) <= RECENT_MAX
             /\ Len(new) = IF Len(old) < RECENT_MAX THEN Len(old) + 1 ELSE RECENT_MAX
             /\ new[1].id = resp'.data.id
             /\ new[1].timestamp = now
             /\ new[1].name = resp'.data.name
             /\ \A i \in 2..Len(new) : new[i] = old[i - 1]
             /\ NewestFirst(new)
             /\ Len(old) = RECENT_MAX
                => \A i \in 1..Len(old) :
                      old[RECENT_MAX].timestamp <= old[i].timestamp]_vars

\* the 51st and the 52nd summary have been added: the list holds 50, the two
\* oldest are gone
C28_Witness ==
    /\ nreq = 2
    /\ resp.status = 201
    /\ Len(Val(kv.list)) = RECENT_MAX + 2
    /\ Len(Val(kv.recent)) = RECENT_MAX
    /\ Val(kv.recent)[1].id = resp.data.id
    /\ Val(kv.recent)[RECENT_MAX].id = Val(kv.list)[3]
    /\ Val(kv.recent)[1].timestamp > Val(kv.recent)[2].timestamp

----------------------------------------------------------------------------
(* The page of a query: its parameters normalized, then paginateArray *)

\* the most items a query finds
MaxFound == 102

\* the numbers of items found
FoundCounts == {0, 1, 50, 51, LIMIT_CAP, LIMIT_CAP + 1, MaxFound}

\* ?page=
PageStrings == {<<"1">>, <<"2">>, <<"3">>}

\* ?limit=
LimitStrings ==
    {<<"1">>, <<"5", "0">>, <<"1", "0", "0">>, <<"1", "0", "1">>,
     <<"1", "5", "0">>, <<"-", "1">>}

\* lines 138-141 and 237 of onRequestGet on the array the filter and the sort
\* have left
QueryPage(array, params) ==
    LET n == Normalize(params)
    IN [normalized |-> n, paginated |-> paginateArray(array, n.page, n.limit)]

InitLimit ==
    /\ vfn = "QueryPage"
    /\ \E n \in FoundCounts : vin = [i \in 1..n |-> i]
    /\ \E page \in {{}} \cup {{v} : v \in PageStrings},
          limit \in {{}} \cup {{v} : v \in LimitStrings},
          sortBy \in {{}, {<<"n", "a", "m", "e">>}},
          sortOrder \in {{}, {<<"a", "s", "c">>}} :
          qreq = [op |-> "QueryPage",
                  params |-> [NoParams EXCEPT !.page = page, !.limit = limit,
                                              !.sortBy = sortBy,
                                              !.sortOrder = sortOrder]]
    /\ now = 0
    /\ rateLimitStore = [ip \in Identities |-> <<>>]
    /\ loginAttempts = [ip \in Identities |-> <<>>]
    /\ kv = EmptyKV
    /\ req = NoRequest
    /\ resp = NoResponse
    /\ nreq = 0
    /\ rlLog = <<>>
    /\ vdone = FALSE
    /\ vres = FALSE
    /\ vmut = FALSE
    /\ sessions = <<>>
    /\ seclog = NoSecurityLog
    /\ cache = <<>>
    /\ qresp = NoQueryResponse
    /\ kvlog = <<>>
    /\ procs = <<>>

CallQueryPage ==
    /\ vfn = "QueryPage" /\ ~vdone
    /\ vres' = QueryPage(vin, qreq.params)
    /\ vdone' = TRUE
    /\ UNCHANGED <<now, rateLimitStore, loginAttempts, kv, req, resp, nreq, rlLog,
                   vfn, vin, vmut, sessions, seclog, cache, qreq, qresp, kvlog,
                   procs>>

NextLimit == CallQueryPage

SpecLimit == InitLimit /\ [][NextLimit]_vars

(* C29: the parameters of a query are normalized before use: an absent page *)
(* becomes 1, an absent limit 50, a limit above 100 becomes 100, an absent  *)
(* sortBy becomes timestamp and an absent sortOrder desc; the page of a     *)
(* query never carries more than 100 items.                                 *)
C29_NormalizedAndCapped ==
    (vfn = "QueryPage" /\ vdone) =>
        LET params == qreq.params
            n == vres.normalized
        IN /\ params.page = {} => n.page = 1
           /\ params.limit = {} => n.limit = 50
           /\ n.limit <= LIMIT_CAP
           /\ params.sortBy = {} => n.sortBy = <<"t", "i", "m", "e", "s", "t", "a", "m", "p">>
           /\ params.sortOrder = {} => n.sortOrder = <<"d", "e", "s", "c">>
           /\ Len(vres.paginated.items) <= LIMIT_CAP

\* the defaults and the cap on the limit alone
C29_DefaultsAndLimitCap ==
    (vfn = "QueryPage" /\ vdone) =>
        LET params == qreq.params
            n == vres.normalized
        IN /\ params.page = {} => n.page = 1
           /\ params.limit = {} => n.limit = 50
           /\ n.limit <= LIMIT_CAP
           /\ params.sortBy = {} => n.sortBy = <<"t", "i", "m", "e", "s", "t", "a", "m", "p">>
           /\ params.sortOrder = {} => n.sortOrder = <<"d", "e", "s", "c">>
           /\ n.limit >= 1 => Len(vres.paginated.items) <= n.limit

----------------------------------------------------------------------------
(* Queries with different parameters, submissions and the cache *)

NextCache ==
    \/ TickCache
    \/ \E random \in 1..MaxRandom :
          SubmitRequestThrows("ipA", "", "Mozilla", GoodBody, random, 0)
    \/ \E params \in {NoParams, SearchParams(GoodName), SearchParamsInFull(GoodName)},
          failAt \in {0, 1} :
          QueryRequest(TRUE, {}, params, failAt)

SpecCache == InitQuery /\ [][NextCache]_vars

\* the payloads a query computes from the store at the time of the step
Recomputed(params) ==
    {r.resp.payload : r \in onRequestGet(kv, sessions, <<>>, now, TRUE, {}, params, 0)}

(* C30: a query answers with a cached payload only when the cache holds an  *)
(* entry under exactly its normalized parameters that was stored less than  *)
(* CACHE_TTL seconds before; a query answered 200 that finds no such entry  *)
(* computes the page from the store and puts it under that key with the     *)
(* current time; no other step, a submission among them, and no query under *)
(* another key removes or changes a cache entry.                            *)
C30_CacheEntryLife ==
    [][LET q == Normalize(qreq'.params)
           fresh == /\ q \in DOMAIN cache
                    /\ now - cache[q].timestamp < CACHE_TTL * 1000
           stores == QueryStep /\ qresp'.status = 200 /\ ~fresh
       IN /\ (QueryStep /\ qresp'.xcache = "HIT")
             => fresh /\ qresp'.payload = {cache[q].data}
          /\ stores
             => /\ qresp'.payload \in Recomputed(qreq'.params)
                /\ DOMAIN cache' = DOMAIN cache \cup {q}
                /\ cache'[q] = [data |-> Val(qresp'.payload), timestamp |-> now]
                /\ \A k \in DOMAIN cache \ {q} : cache'[k] = cache[k]
          /\ ~stores => cache' = cache]_vars

\* two entries under different keys, the older one past its lifetime and
\* still there, the younger one just stored after a submission
C30_Witness ==
    /\ qreq.op = "query"
    /\ qresp.status = 200
    /\ qresp.xcache = "MISS"
    /\ Normalize(NoParams) \in DOMAIN cache
    /\ Normalize(SearchParams(GoodName)) \in DOMAIN cache
    /\ Normalize(qreq.params) = Normalize(SearchParams(GoodName))
    /\ cache[Normalize(NoParams)].timestamp = 0
    /\ cache[Normalize(NoParams)].data.data = <<>>
    /\ cache[Normalize(qreq.params)].timestamp = CACHE_TTL * 1000
    /\ Len(cache[Normalize(qreq.params)].data.data) = 1
    /\ now = CACHE_TTL * 1000

----------------------------------------------------------------------------
(* Session checks running while a logout is handled.  A session check is    *)
(* two KV calls, the get of line 215 and the put of line 224 or the delete  *)
(* of line 229, and other requests are handled between them.                *)

\* the session checks of a run
MaxChecks == 2

\* GET /api/admin/login arrives with the cookie of the session
StartCheck ==
    /\ Len(procs) < MaxChecks
    /\ procs' = Append(procs, [pc |-> "get", cookieHeader |-> CookieOf(TheSession),
                               sessionData |-> Unread, loggedIn |-> FALSE,
                               afterLogout |-> vdone])
    /\ UNCHANGED <<now, rateLimitStore, loginAttempts, kv, req, resp, nreq, rlLog,
                   vfn, vin, vdone, vres, vmut, sessions, seclog, cache, qreq, qresp,
                   kvlog>>

\* lines 213-223: the get, the tests of what it returned, lastActivity set
CheckGet(p) ==
    /\ p \in DOMAIN procs
    /\ procs[p].pc = "get"
    /\ LET sessionId == CHOOSE id \in CookieSessionId(procs[p].cookieHeader) : TRUE
           found == sessionId \in DOMAIN sessions /\ sessions[sessionId].value.loggedIn
           sessionData == sessions[sessionId].value
       IN procs' = [procs EXCEPT ![p] =
              IF ~found THEN [@ EXCEPT !.pc = "done"]
              ELSE IF now - sessionData.timestamp < SESSION_MAX_AGE_MS
              THEN [@ EXCEPT !.pc = "put", !.loggedIn = TRUE,
                             !.sessionData = {[sessionData EXCEPT !.lastActivity = {now}]}]
              ELSE [@ EXCEPT !.pc = "delete"]]
    /\ UNCHANGED <<now, rateLimitStore, loginAttempts, kv, req, resp, nreq, rlLog,
                   vfn, vin, vdone, vres, vmut, sessions, seclog, cache, qreq, qresp,
                   kvlog>>

\* lines 224-226: the session written back, and the response
CheckPut(p) ==
    /\ p \in DOMAIN procs
    /\ procs[p].pc = "put"
    /\ LET sessionId == CHOOSE id \in CookieSessionId(procs[p].cookieHeader) : TRUE
       IN sessions' = PutSession(sessions, sessionId, Val(procs[p].sessionData), now)
    /\ procs' = [procs EXCEPT ![p].pc = "done", ![p].sessionData = Unread]
    /\ UNCHANGED <<now, rateLimitStore, loginAttempts, kv, req, resp, nreq, rlLog,
                   vfn, vin, vdone, vres, vmut, seclog, cache, qreq, qresp, kvlog>>

\* line 229: the session found too old is deleted, and the response
CheckDelete(p) ==
    /\ p \in DOMAIN procs
    /\ procs[p].pc = "delete"
    /\ LET sessionId == CHOOSE id \in CookieSessionId(procs[p].cookieHeader) : TRUE
       IN sessions' = RemoveKey(sessions, sessionId)
    /\ procs' = [procs EXCEPT ![p].pc = "done"]
    /\ UNCHANGED <<now, rateLimitStore, loginAttempts, kv, req, resp, nreq, rlLog,
                   vfn, vin, vdone, vres, vmut, seclog, cache, qreq, qresp, kvlog>>

\* DELETE /api/admin/login with the cookie of the session; vdone tells that a
\* logout has been answered 200
LogoutRequest(failAt) ==
    /\ ~vdone
    /\ \E r \in {onRequestDelete(sessions, CookieOf(TheSession), failAt)} :
          /\ sessions' = r.sessions
          /\ qresp' = r.resp
          /\ kvlog' = r.log
          /\ vdone' = (r.resp.status = 200)
    /\ qreq' = [op |-> "logout", public |-> FALSE,
                cookieHeader |-> CookieOf(TheSession), params |-> NoParams,
                failAt |-> failAt, t |-> now]
    /\ UNCHANGED <<now, rateLimitStore, loginAttempts, kv, req, resp, nreq, rlLog,
                   vfn, vin, vres, vmut, seclog, cache, procs>>

NextLogout ==
    \/ TickHalfDay
    \/ \E id \in DOMAIN sessions : KvExpire(id)
    \/ /\ sessions = <<>> /\ now = 0 /\ ~vdone
       /\ Login("ipA", "", "Mozilla", RightPassword, <<>>, 1, 0)
    \/ StartCheck
    \/ \E p \in DOMAIN procs : CheckGet(p)
    \/ \E p \in DOMAIN procs : CheckPut(p)
    \/ \E p \in DOMAIN procs : CheckDelete(p)
    \/ \E failAt \in {0, 1} : LogoutRequest(failAt)
    \/ QueryRequest(FALSE, CookieOf(TheSession), NoParams, 0)

SpecLogout == InitQuery /\ [][NextLogout]_vars

(* C21: once a logout of a session has been answered, no request that       *)
(* starts afterwards with the id of that session is treated as logged in    *)
(* or authorized, however the session checks and queries in flight are      *)
(* interleaved with it.                                                     *)
C21_LoggedOutStaysOut ==
    [][/\ (vdone /\ QueryStep) => qresp'.status = 401
       /\ \A p \in DOMAIN procs' :
             (procs'[p].afterLogout /\ procs'[p].pc = "done") => ~procs'[p].loggedIn]_vars

----------------------------------------------------------------------------
(* The record fetch of a query, lines 215-228: the reads of one batch are   *)
(* issued together and settle one by one in any order.  vin is the Index,   *)
(* vres the loop: i, the positions whose read is in flight, the number of   *)
(* reads issued for each position and the batches issued so far.            *)

\* const batchSize = 20
BATCH_SIZE == 20

\* the longest Index fetched
MaxIndex == 21

\* the Index positions of the batch that starts after position i
BatchAt(i, n) == (i + 1)..Min(i + BATCH_SIZE, n)

\* a wait that ends with the first read that settles
AnySettled(batch, inflight) == inflight # batch

\* await Promise.all(batchPromises), none of which rejects: every read of
\* the batch has settled
AllSettled(batch, inflight) == inflight = {}

InitFetch ==
    /\ vfn = "fetch"
    /\ \E n \in {0, 1, 2, MaxIndex} : vin = [p \in 1..n |-> p]
    /\ vres = [pc |-> "for", i |-> 0, inflight |-> {},
               reads |-> [p \in DOMAIN vin |-> 0], batches |-> 0]
    /\ now = 0
    /\ rateLimitStore = [ip \in Identities |-> <<>>]
    /\ loginAttempts = [ip \in Identities |-> <<>>]
    /\ kv = EmptyKV
    /\ req = NoRequest
    /\ resp = NoResponse
    /\ nreq = 0
    /\ rlLog = <<>>
    /\ vdone = FALSE
    /\ vmut = FALSE
    /\ qreq = NoQueryRequest
    /\ sessions = <<>>
    /\ seclog = NoSecurityLog
    /\ cache = <<>>
    /\ qresp = NoQueryResponse
    /\ kvlog = <<>>
    /\ procs = <<>>

\* lines 218-222: batchIds.map issues the reads of the batch
IssueBatch ==
    /\ vfn = "fetch" /\ vres.pc = "for"
    /\ vres.i < Len(vin)
    /\ vres' = [vres EXCEPT !.pc = "await",
                            !.inflight = BatchAt(vres.i, Len(vin)),
                            !.reads = [p \in DOMAIN vin |->
                                          IF p \in BatchAt(vres.i, Len(vin))
                                          THEN vres.reads[p] + 1 ELSE vres.reads[p]],
                            !.batches = @ + 1]
    /\ UNCHANGED <<now, rateLimitStore, loginAttempts, kv, req, resp, nreq, rlLog,
                   vfn, vin, vdone, vmut, sessions, seclog, cache, qreq, qresp, kvlog,
                   procs>>

\* a read returns its record, or fails and is caught (line 221)
SettleRead(p) ==
    /\ vfn = "fetch" /\ vres.pc = "await"
    /\ p \in vres.inflight
    /\ vres' = [vres EXCEPT !.inflight = @ \ {p}]
    /\ UNCHANGED <<now, rateLimitStore, loginAttempts, kv, req, resp, nreq, rlLog,
                   vfn, vin, vdone, vmut, sessions, seclog, cache, qreq, qresp, kvlog,
                   procs>>

\* lines 224-226 and the i += batchSize of line 218
NextBatch ==
    /\ vfn = "fetch" /\ vres.pc = "await"
    /\ AllSettled(BatchAt(vres.i, Len(vin)), vres.inflight)
    /\ vres' = [vres EXCEPT !.pc = "for", !.i = @ + BATCH_SIZE]
    /\ UNCHANGED <<now, rateLimitStore, loginAttempts, kv, req, resp, nreq, rlLog,
                   vfn, vin, vdone, vmut, sessions, seclog, cache, qreq, qresp, kvlog,
                   procs>>

\* the loop ends
EndFetch ==
    /\ vfn = "fetch" /\ vres.pc = "for"
    /\ vres.i >= Len(vin)
    /\ vres' = [vres EXCEPT !.pc = "done"]
    /\ vdone' = TRUE
    /\ UNCHANGED <<now, rateLimitStore, loginAttempts, kv, req, resp, nreq, rlLog,
                   vfn, vin, vmut, sessions, seclog, cache, qreq, qresp, kvlog,
                   procs>>

NextFetch ==
    \/ IssueBatch
    \/ \E p \in DOMAIN vin : SettleRead(p)
    \/ NextBatch
    \/ EndFetch

SpecFetch == InitFetch /\ [][NextFetch]_vars

(* C31: during the record fetch at most 20 reads are in flight; a batch is  *)
(* issued only when no read of the batch before is in flight; batch k is    *)
(* the Index positions 20(k-1)+1 to 20k, in order; when the fetch ends each *)
(* Index entry has been read exactly once.                                  *)
C31_BatchesOfTwenty ==
    [][/\ Cardinality(vres'.inflight) <= BATCH_SIZE
       /\ vres'.batches # vres.batches
          => /\ vres.inflight = {}
             /\ vres'.inflight = {p \in DOMAIN vin :
                                     /\ p > BATCH_SIZE * vres.batches
                                     /\ p <= BATCH_SIZE * (vres.batches + 1)}
             /\ \A p \in DOMAIN vin : p <= BATCH_SIZE * vres.batches
                                        => vres.reads[p] = 1
       /\ \A p \in DOMAIN vin : vres'.reads[p] <= 1
       /\ vres'.pc = "done" => \A p \in DOMAIN vin : vres'.reads[p] = 1]_vars

\* the second batch, of one read, in flight after the 20 reads of the first
C31_Witness ==
    /\ vfn = "fetch"
    /\ Len(vin) = BATCH_SIZE + 1
    /\ vres.batches = 2
    /\ vres.inflight = {BATCH_SIZE + 1}
    /\ \A p \in DOMAIN vin : vres.reads[p] = 1

----------------------------------------------------------------------------
(* Queries one of whose KV calls fails, on a store of up to MaxReqs records *)

\* the KV calls of a public query on MaxReqs records: the cache, the Index,
\* the records, the stats and the cache again
MaxQueryCalls == 4 + MaxReqs

NextReads ==
    \/ TickCache
    \/ \E body \in {GoodBody, OtherGoodBody}, random \in 1..MaxRandom :
          SubmitRequest("ipA", "", "Mozilla", body, random)
    \/ \E failAt \in 0..MaxQueryCalls : QueryRequest(TRUE, {}, NoParams, failAt)

SpecReads == InitQuery /\ [][NextReads]_vars

\* the sequence without its element at position i
RemoveAt(seq, i) == SubSeq(seq, 1, i - 1) \o SubSeq(seq, i + 1, Len(seq))

\* the store whose Index lacks its entry at position i
WithoutEntry(kvs, i) == [kvs EXCEPT !.list = {RemoveAt(Val(kvs.list), i)}]

(* C32: a query one of whose record reads fails is still answered 200 when  *)
(* no other call fails, and it carries the records a query without failure *)
(* carries on the Index without that entry: the records it filters are the  *)
(* indexed records whose read succeeded, in Index order.                    *)
C32_FailedReadIsDropped ==
    [][(/\ QueryStep
        /\ ~CacheHit(IF Normalize(qreq'.params) \in DOMAIN cache
                     THEN {cache[Normalize(qreq'.params)]} ELSE {}, now)
        /\ qreq'.failAt \in 3..(2 + Len(GetOr(kv.list, <<>>))))
       => LET i == qreq'.failAt - 2
              others == onRequestGet(WithoutEntry(kv, i), sessions, cache, now, TRUE,
                                     {}, qreq'.params, 0)
          IN /\ qresp'.status = 200
             /\ Val(qresp'.payload).data \in {Val(r.resp.payload).data : r \in others}
             /\ Val(qresp'.payload).pagination.totalItems = Len(Val(kv.list)) - 1
             /\ \A d \in DOMAIN Val(qresp'.payload).data :
                   \E j \in DOMAIN Val(kv.list) :
                      j # i /\ Val(qresp'.payload).data[d] = kv.responses[Val(kv.list)[j]]]_vars

\* the read of the first of two records fails: the answer carries the second
C32_Witness ==
    /\ qreq.op = "query"
    /\ qreq.failAt = 3
    /\ qresp.status = 200
    /\ qresp.xcache = "MISS"
    /\ Len(GetOr(kv.list, <<>>)) = 2
    /\ Len(Val(qresp.payload).data) = 1
    /\ Val(qresp.payload).data[1] = kv.responses[Val(kv.list)[2]]
    /\ Val(kv.list)[1] # Val(kv.list)[2]

----------------------------------------------------------------------------
(* filterResponses on arrays of stored records *)

\* the record the submit handler stores for a body accepted at time t
StoredRecord(body, t) ==
    onRequestPost([ip \in Identities |-> <<>>], EmptyKV, t, "ipA", "", "Mozilla",
                  body, 1).kv.responses[generateResponseId(t, 1)]

\* records of Ravi at the first instant of EpochYear and of Anu and Ravi later
FilterRecords ==
    {StoredRecord(GoodBody, 0), StoredRecord(OtherGoodBody, TickMs),
     StoredRecord(GoodBody, 2 * TickMs)}

\* the longest array filtered
MaxFiltered == 2

\* the four digits of a year
YearText(y) ==
    <<Digits[(y \div 1000) + 1], Digits[((y \div 100) % 10) + 1],
      Digits[((y \div 10) % 10) + 1], Digits[(y % 10) + 1]>>

\* ?search=: not given, empty, part of a name in either case, name and
\* father across the joint, text no record has
SearchInputs ==
    {{}, {<<>>}, {<<"a", "v">>}, {<<"R", "A", "V">>}, {<<"i", " ", "O", "m">>},
     {<<"z", "z">>}}

\* ?startDate= and ?endDate=: not given, the year before EpochYear, EpochYear,
\* the year after, text that is no date
DateInputs ==
    {{}, {YearText(EpochYear - 1)}, {YearText(EpochYear)}, {YearText(EpochYear + 1)},
     {<<"s", "o", "o", "n">>}}

\* ?mobile= and ?aadhar=: not given, digits with punctuation that occur in
\* the mobile number, digits that occur in the national ID, no digit at all
DigitInputs ==
    {{}, {<<"9", "1", "-", "2", "3">>}, {<<"4", "1", " ", "2", "3">>}, {<<"x">>}}

InitFilter ==
    /\ vfn = "filterResponses"
    /\ \E n \in 0..MaxFiltered : vin \in [1..n -> FilterRecords]
    /\ \E search \in SearchInputs, startDate \in DateInputs, endDate \in DateInputs,
          mobile \in DigitInputs, aadhar \in DigitInputs \ {{<<"x">>}} :
          qreq = [op |-> "filterResponses",
                  filters |-> [search |-> search, startDate |-> startDate,
                               endDate |-> endDate, mobile |-> mobile,
                               aadhar |-> aadhar]]
    /\ now = 0
    /\ rateLimitStore = [ip \in Identities |-> <<>>]
    /\ loginAttempts = [ip \in Identities |-> <<>>]
    /\ kv = EmptyKV
    /\ req = NoRequest
    /\ resp = NoResponse
    /\ nreq = 0
    /\ rlLog = <<>>
    /\ vdone = FALSE
    /\ vres = FALSE
    /\ vmut = FALSE
    /\ sessions = <<>>
    /\ seclog = NoSecurityLog
    /\ cache = <<>>
    /\ qresp = NoQueryResponse
    /\ kvlog = <<>>
    /\ procs = <<>>

CallFilterResponses ==
    /\ vfn = "filterResponses" /\ ~vdone
    /\ vres' = filterResponses(vin, qreq.filters)
    /\ vdone' = TRUE
    /\ UNCHANGED <<now, rateLimitStore, loginAttempts, kv, req, resp, nreq, rlLog,
                   vfn, vin, vmut, sessions, seclog, cache, qreq, qresp, kvlog,
                   procs>>

NextFilter == CallFilterResponses

SpecFilter == InitFilter /\ [][NextFilter]_vars

\* needle occurs in hay
Occurs(needle, hay) ==
    \E k \in 1..(Len(hay) - Len(needle) + 1) :
        SubSeq(hay, k, k + Len(needle) - 1) = needle

\* the instant of a year-only date, {} for text that is no date
InstantOfYear(text) ==
    {<<y, 0>> : y \in {z \in (EpochYear - 1)..(EpochYear + 1) : YearText(z) = text}}

\* the record satisfies the filters that are supplied
Satisfies(r, f) ==
    LET joined == r.name \o <<" ">> \o r.father \o <<" ">> \o r.mobile \o <<" ">>
                  \o r.aadhar \o <<" ">> \o r.dob
        at == <<EpochYear, r.timestamp>>
        notAfter(a, b) == a[1] < b[1] \/ (a[1] = b[1] /\ a[2] <= b[2])
    IN /\ (f.search # {} /\ f.search # {<<>>})
          => Occurs(toLowerCase(Val(f.search)), toLowerCase(joined))
       /\ \A start \in UNION {InstantOfYear(d) : d \in f.startDate} : notAfter(start, at)
       /\ \A end \in UNION {InstantOfYear(d) : d \in f.endDate} : notAfter(at, end)
       /\ f.mobile # {} => Occurs(StripNonDigits(Val(f.mobile)), r.mobile)
       /\ f.aadhar # {} => Occurs(StripNonDigits(Val(f.aadhar)), r.aadhar)

\* the positions of the array whose record satisfies the filters
Kept(array, f) == {i \in DOMAIN array : Satisfies(array[i], f)}

(* C33: filterResponses returns exactly the records that satisfy every      *)
(* supplied filter, in their input order: search a case-insensitive         *)
(* substring of the joined name, father, mobile, national ID and dob;       *)
(* startDate and endDate bounds on the timestamp that include the bound     *)
(* itself; mobile and national-ID filters the digits of the filter value as *)
(* a substring.  A filter that is not supplied, and a date filter that is   *)
(* no date, excludes nothing.                                               *)
C33_FilterKeepsTheMatches ==
    (vfn = "filterResponses" /\ vdone) =>
        /\ Len(vres) = Cardinality(Kept(vin, qreq.filters))
        /\ \E pos \in [1..Len(vres) -> Kept(vin, qreq.filters)] :
              /\ \A i, j \in 1..Len(vres) : i < j => pos[i] < pos[j]
              /\ \A i \in 1..Len(vres) : vres[i] = vin[pos[i]]

\* the record made at the instant the end date names is kept, the later one
\* of the same name is not
C33_Witness ==
    /\ vfn = "filterResponses" /\ vdone
    /\ vin = <<StoredRecord(GoodBody, 2 * TickMs), StoredRecord(GoodBody, 0)>>
    /\ qreq.filters.endDate = {YearText(EpochYear)}
    /\ qreq.filters.startDate = {YearText(EpochYear)}
    /\ qreq.filters.search = {<<"R", "A", "V">>}
    /\ qreq.filters.mobile = {<<"9", "1", "-", "2", "3">>}
    /\ vres = <<StoredRecord(GoodBody, 0)>>

----------------------------------------------------------------------------
(* sortResponses on arrays of stored records, some with equal keys *)

\* a valid body whose name is in lower case, with a dob and a mobile of its own
LowerCaseBody ==
    ObjectBody(AllFields, <<"b", "i", "n", "a">>, <<"1", "9", "9", "0">>,
               <<"8", "1", "2", "3", "4", "5", "6", "7", "8", "9">>, <<"O", "m">>,
               GoodAadhar)

\* Ravi and Anu have the same dob and mobile, Anu and bina the same timestamp
SortRecords ==
    {StoredRecord(GoodBody, 0), StoredRecord(OtherGoodBody, TickMs),
     StoredRecord(LowerCaseBody, TickMs)}

\* the longest array sorted
MaxSorted == 3

SortKeys ==
    {<<"n", "a", "m", "e">>, <<"d", "o", "b">>, <<"m", "o", "b", "i", "l", "e">>,
     <<"t", "i", "m", "e", "s", "t", "a", "m", "p">>}

InitSort ==
    /\ vfn = "sortResponses"
    /\ \E n \in 0..MaxSorted : vin \in [1..n -> SortRecords]
    /\ \E sortBy \in SortKeys, sortOrder \in {<<"a", "s", "c">>, <<"d", "e", "s", "c">>} :
          qreq = [op |-> "sortResponses", sortBy |-> sortBy, sortOrder |-> sortOrder]
    /\ now = 0
    /\ rateLimitStore = [ip \in Identities |-> <<>>]
    /\ loginAttempts = [ip \in Identities |-> <<>>]
    /\ kv = EmptyKV
    /\ req = NoRequest
    /\ resp = NoResponse
    /\ nreq = 0
    /\ rlLog = <<>>
    /\ vdone = FALSE
    /\ vres = FALSE
    /\ vmut = FALSE
    /\ sessions = <<>>
    /\ seclog = NoSecurityLog
    /\ cache = <<>>
    /\ qresp = NoQueryResponse
    /\ kvlog = <<>>
    /\ procs = <<>>

\* the engine returns one of the orders the comparator admits
CallSortResponses ==
    /\ vfn = "sortResponses" /\ ~vdone
    /\ vres' \in sortResponses(vin, qreq.sortBy, qreq.sortOrder)
    /\ vdone' = TRUE
    /\ UNCHANGED <<now, rateLimitStore, loginAttempts, kv, req, resp, nreq, rlLog,
                   vfn, vin, vmut, sessions, seclog, cache, qreq, qresp, kvlog,
                   procs>>

NextSort == CallSortResponses

SpecSort == InitSort /\ [][NextSort]_vars

\* the key of a is not after the key of b: names without regard to case,
\* dob and timestamp as instants, mobile as text
KeyNotAfter(a, b, sortBy) ==
    IF sortBy = <<"n", "a", "m", "e">>
    THEN toLowerCase(a.name) = toLowerCase(b.name)
         \/ StringLess(toLowerCase(a.name), toLowerCase(b.name))
    ELSE IF sortBy = <<"d", "o", "b">>
    THEN parseIntDigits(a.dob, 1, 0) <= parseIntDigits(b.dob, 1, 0)
    ELSE IF sortBy = <<"m", "o", "b", "i", "l", "e">>
    THEN a.mobile = b.mobile \/ StringLess(a.mobile, b.mobile)
    ELSE a.timestamp <= b.timestamp

(* C34: sortResponses returns a permutation of its input, non-decreasing in *)
(* the sortBy key when sortOrder is asc and non-increasing when it is desc, *)
(* for the keys name (without regard to case), dob and timestamp (as        *)
(* instants) and mobile (as text), also when several records have the same  *)
(* key.                                                                     *)
C34_SortedPermutation ==
    (vfn = "sortResponses" /\ vdone) =>
        /\ Len(vres) = Len(vin)
        /\ \E p \in Orders(Len(vin)) : \A i \in 1..Len(vin) : vres[i] = vin[p[i]]
        /\ \A i, j \in 1..Len(vres) :
              i < j => IF qreq.sortOrder = <<"a", "s", "c">>
                       THEN KeyNotAfter(vres[i], vres[j], qreq.sortBy)
                       ELSE KeyNotAfter(vres[j], vres[i], qreq.sortBy)

\* three records sorted by name downwards: Ravi, bina, Anu
C34_Witness ==
    /\ vfn = "sortResponses" /\ vdone
    /\ qreq.sortBy = <<"n", "a", "m", "e">>
    /\ qreq.sortOrder = <<"d", "e", "s", "c">>
    /\ vin = <<StoredRecord(OtherGoodBody, TickMs), StoredRecord(GoodBody, 0),
               StoredRecord(LowerCaseBody, TickMs)>>
    /\ vres = <<StoredRecord(GoodBody, 0), StoredRecord(LowerCaseBody, TickMs),
                StoredRecord(OtherGoodBody, TickMs)>>

\* records with the same mobile, returned in either order
C34_TieWitness ==
    /\ vfn = "sortResponses" /\ vdone
    /\ qreq.sortBy = <<"m", "o", "b", "i", "l", "e">>
    /\ vin = <<StoredRecord(GoodBody, 0), StoredRecord(OtherGoodBody, TickMs)>>
    /\ vres = <<StoredRecord(OtherGoodBody, TickMs), StoredRecord(GoodBody, 0)>>

----------------------------------------------------------------------------
(* What a session check leaves of the session *)

(* C35: a session check that reports the session logged in writes it back   *)
(* with lastActivity set to the current time and nothing else changed:      *)
(* loggedIn, the timestamp of the login, ip and userAgent stay, and so does *)
(* every other session; the instant from which the handlers treat the       *)
(* session as expired, 24 hours after that timestamp, does not move.        *)
C35_CheckSetsLastActivityOnly ==
    [][(CheckStep /\ qresp'.loggedIn)
       => \E id \in CookieSessionId(qreq'.cookieHeader) :
             /\ id \in DOMAIN sessions /\ id \in DOMAIN sessions'
             /\ sessions'[id].value = [sessions[id].value EXCEPT !.lastActivity = {now}]
             /\ sessions'[id].value.loggedIn = sessions[id].value.loggedIn
             /\ sessions'[id].value.timestamp = sessions[id].value.timestamp
             /\ sessions'[id].value.ip = sessions[id].value.ip
             /\ sessions'[id].value.userAgent = sessions[id].value.userAgent
             /\ \A other \in DOMAIN sessions \ {id} :
                   other \in DOMAIN sessions' /\ sessions'[other] = sessions[other]
             /\ DOMAIN sessions' = DOMAIN sessions]_vars

\* a second check, 12 hours after the login: lastActivity is now, the
\* timestamp is the login's
C35_Witness ==
    /\ qreq.op = "check"
    /\ qresp.loggedIn
    /\ now = HalfDayMs
    /\ TheSession \in DOMAIN sessions
    /\ sessions[TheSession].value.lastActivity = {HalfDayMs}
    /\ sessions[TheSession].value.timestamp = 0
    /\ sessions[TheSession].expiresAt = HalfDayMs + SESSION_DURATION * 1000

----------------------------------------------------------------------------
(* The session check against the validation of the query and the export *)

(* C36: for every stored session, whatever its age, the session check       *)
(* reports logged in exactly when the validation of the query and the one   *)
(* of the export accept the session.                                        *)
C36_SameVerdict ==
    \A id \in DOMAIN sessions :
        LET checked == sessionOnRequestGet(sessions, now, CookieOf(id), 0).resp.loggedIn
            queried == validateAdminSession(sessions, now, CookieOf(id), 0).valid
            exported == validateAdminSessionExport(sessions, now, CookieOf(id), 0).valid
        IN checked = queried /\ queried = exported

\* the verdicts agree at every age but 24 hours
C36_SameVerdictButAtLimit ==
    \A id \in DOMAIN sessions :
        LET checked == sessionOnRequestGet(sessions, now, CookieOf(id), 0).resp.loggedIn
            queried == validateAdminSession(sessions, now, CookieOf(id), 0).valid
            exported == validateAdminSessionExport(sessions, now, CookieOf(id), 0).valid
        IN /\ queried = exported
           /\ Age(id) # SESSION_MAX_AGE_MS => checked = queried
           /\ Age(id) = SESSION_MAX_AGE_MS => ~checked /\ queried

----------------------------------------------------------------------------
(* What a query writes *)

(* C37: a query leaves the records, the Index, the recent list, the stats,  *)
(* the last submission date and the security log as they are; the only key  *)
(* it puts is the cache key of its normalized parameters, and the only key  *)
(* it deletes is the session key its cookie names, when that session is     *)
(* older than 24 hours.                                                     *)
C37_QueryWritesItsCacheKeyOnly ==
    [][QueryStep
       => LET q == Normalize(qreq'.params)
              ids == CookieSessionId(qreq'.cookieHeader)
          IN /\ kv' = kv
             /\ seclog' = seclog
             /\ \A i \in DOMAIN kvlog' :
                   /\ kvlog'[i].op = "put" => kvlog'[i].key = "cache"
                   /\ kvlog'[i].op = "delete" => kvlog'[i].key = "session"
             /\ \A k \in DOMAIN cache : k \in DOMAIN cache' /\ (k # q => cache'[k] = cache[k])
             /\ DOMAIN cache' \subseteq DOMAIN cache \cup {q}
             /\ \A id \in DOMAIN sessions :
                   IF id \in DOMAIN sessions'
                   THEN sessions'[id] = sessions[id]
                   ELSE /\ id \in ids
                        /\ ~qreq'.public
                        /\ Age(id) > SESSION_MAX_AGE_MS
             /\ DOMAIN sessions' \subseteq DOMAIN sessions]_vars

\* a query found the session 36 hours old and deleted it; the record
\* submitted before is still there
C37_Witness ==
    /\ qreq.op = "query"
    /\ qreq.cookieHeader = CookieOf(TheSession)
    /\ qreq.t = now
    /\ now > SESSION_MAX_AGE_MS
    /\ qresp.status = 401
    /\ kvlog = <<KvOp("get", "session"), KvOp("delete", "session")>>
    /\ TheSession \notin DOMAIN sessions
    /\ Len(Val(kv.list)) = 1
    /\ cache # <<>>

----------------------------------------------------------------------------
(* The total of the stats and the length of the Index *)

(* C38: submissions being handled one after the other and all their writes *)
(* succeeding, the total of the stats equals the number of ids in the       *)
(* Index, and both grow by one with each submission answered 201 and with   *)
(* no other step: both equal the number of submissions answered 201.        *)
C38_TotalCountsTheIndex ==
    [][LET total(kvs) == GetOr(kvs.stats, [total |-> 0, today |-> 0]).total
           ids(kvs) == Len(GetOr(kvs.list, <<>>))
       IN /\ total(kv) = ids(kv) => total(kv') = ids(kv')
          /\ IF nreq' # nreq /\ resp'.status = 201
             THEN ids(kv') = ids(kv) + 1 /\ total(kv') = total(kv) + 1
             ELSE ids(kv') = ids(kv) /\ total(kv') = total(kv)]_vars

\* two submissions answered 201 on the same day: total 2, two ids
C38_Witness ==
    /\ nreq = 2
    /\ resp.status = 201
    /\ Val(kv.stats).total = 2
    /\ Val(kv.stats).today = 2
    /\ Len(Val(kv.list)) = 2

----------------------------------------------------------------------------
(* ApiService.request of the client, part_000 lines 319-373.  vres is the   *)
(* ApiService instance, procs the calls of request on it: where each one    *)
(* stands and the fetches it has issued.                                    *)

\* CONFIG.MAX_RETRIES
MAX_RETRIES == 3

\* the calls of request that run on one instance
MaxClientCalls == 2

\* the fetches of one call the model follows
MaxFetches == 6

\* the answers of the server: success, rate limit, unauthorized, error
ServerStatus == {200, 429, 401, 500}

InitClient ==
    /\ vfn = "ApiService.request"
    /\ vres = [retryCount |-> 0]
    /\ procs = <<>>
    /\ vin = <<>>
    /\ now = 0
    /\ rateLimitStore = [ip \in Identities |-> <<>>]
    /\ loginAttempts = [ip \in Identities |-> <<>>]
    /\ kv = EmptyKV
    /\ req = NoRequest
    /\ resp = NoResponse
    /\ nreq = 0
    /\ rlLog = <<>>
    /\ vdone = FALSE
    /\ vmut = FALSE
    /\ qreq = NoQueryRequest
    /\ sessions = <<>>
    /\ seclog = NoSecurityLog
    /\ cache = <<>>
    /\ qresp = NoQueryResponse
    /\ kvlog = <<>>

\* request(endpoint, options) is called: line 333 issues the first fetch
CallRequest ==
    /\ vfn = "ApiService.request"
    /\ Len(procs) < MaxClientCalls
    /\ procs' = Append(procs, [pc |-> "fetch", fetches |-> 1])
    /\ UNCHANGED <<now, rateLimitStore, loginAttempts, kv, req, resp, nreq, rlLog,
                   vfn, vin, vdone, vres, vmut, sessions, seclog, cache, qreq, qresp,
                   kvlog>>

\* lines 333-368: the fetch is answered.  429 sleeps and calls request
\* again; 401 and a response that is not ok throw into the catch block, which
\* retries while retryCount < MAX_RETRIES; success sets retryCount to 0
FetchAnswered(p, status) ==
    /\ vfn = "ApiService.request"
    /\ p \in DOMAIN procs
    /\ procs[p].pc = "fetch"
    /\ IF status = 429
       THEN /\ procs' = [procs EXCEPT ![p].pc = "sleep"]
            /\ vres' = vres
       ELSE IF status = 200
       THEN /\ procs' = [procs EXCEPT ![p].pc = "resolved"]
            /\ vres' = [vres EXCEPT !.retryCount = 0]
       ELSE IF vres.retryCount < MAX_RETRIES
       THEN /\ procs' = [procs EXCEPT ![p].pc = "sleep"]
            /\ vres' = [vres EXCEPT !.retryCount = @ + 1]
       ELSE /\ procs' = [procs EXCEPT ![p].pc = "rejected"]
            /\ vres' = vres
    /\ UNCHANGED <<now, rateLimitStore, loginAttempts, kv, req, resp, nreq, rlLog,
                   vfn, vin, vdone, vmut, sessions, seclog, cache, qreq, qresp, kvlog>>

\* lines 339 and 365: the sleep is over and request is called again, which
\* issues the next fetch
SleepOver(p) ==
    /\ vfn = "ApiService.request"
    /\ p \in DOMAIN procs
    /\ procs[p].pc = "sleep"
    /\ procs[p].fetches < MaxFetches
    /\ procs' = [procs EXCEPT ![p].pc = "fetch", ![p].fetches = @ + 1]
    /\ UNCHANGED <<now, rateLimitStore, loginAttempts, kv, req, resp, nreq, rlLog,
                   vfn, vin, vdone, vres, vmut, sessions, seclog, cache, qreq, qresp,
                   kvlog>>

NextClient ==
    \/ CallRequest
    \/ \E p \in DOMAIN procs, status \in ServerStatus : FetchAnswered(p, status)
    \/ \E p \in DOMAIN procs : SleepOver(p)

SpecClient == InitClient /\ [][NextClient]_vars

(* C39: a call of ApiService.request issues at most MAX_RETRIES + 1 = 4     *)
(* fetches, whatever the server answers and whatever other calls run on the *)
(* same instance.                                                           *)
C39_AtMostFourFetches ==
    vfn = "ApiService.request"
        => \A p \in DOMAIN procs : procs[p].fetches <= MAX_RETRIES + 1

----------------------------------------------------------------------------
(* AdminDashboard.loadResponses of the client, part_000 lines 1076-1109.    *)
(* vin is the dashboard's responses list (line 752: empty at construction), *)
(* procs holds the answer of the responses endpoint it was last assigned    *)
(* from.                                                                    *)

\* result[name] of JavaScript: the property, or undefined
Property(result, name) == IF name \in DOMAIN result THEN {result[name]} ELSE {}

\* lines 1083-1086: result = await this.api.getResponses(); when
\* result.success, this.responses = result.responses || []
loadResponses ==
    /\ qreq.op = "query"
    /\ qresp.status = 200
    /\ qresp.payload # {}
    /\ procs # <<qresp>>
    /\ LET result == Val(qresp.payload)
       IN /\ GetOr(Property(result, "success"), FALSE)
          /\ vin' = GetOr(Property(result, "responses"), <<>>)
    /\ procs' = <<qresp>>
    /\ UNCHANGED <<now, rateLimitStore, loginAttempts, kv, req, resp, nreq, rlLog,
                   vfn, vdone, vres, vmut, sessions, seclog, cache, qreq, qresp,
                   kvlog>>

NextDashboard ==
    \/ TickCache
    \/ \E body \in {GoodBody, OtherGoodBody}, random \in 1..MaxRandom :
          SubmitRequest("ipA", "", "Mozilla", body, random)
    \/ QueryRequest(TRUE, {}, NoParams, 0)
    \/ loadResponses

SpecDashboard == InitQuery /\ [][NextDashboard]_vars

(* C40: after loadResponses received a 200 success payload from the         *)
(* responses endpoint, the dashboard's responses list equals the payload's  *)
(* data array.                                                              *)
C40_ListIsThePayloadData ==
    (vfn = "onRequestPost" /\ procs # <<>>)
        => vin = Val(procs[1].payload).data

\* whatever the payload carries, the list the dashboard keeps is empty
C40_ListStaysEmpty == vin = <<>>

====
